---- MODULE Spec2Model ----
(***************************************************************************)
(* Model of the financial-statement normalisation and indicator pipeline   *)
(* (financial_subtabs/financial_indicators.py, core/features.py and the   *)
(* period sorters of utils/transforms.py and ultis/transforms.py).         *)
(*                                                                         *)
(* Text is modelled as a sequence of characters (one-character strings;    *)
(* a non-ASCII code point is written "uXXXX").  A float is an exact        *)
(* rational, NaN or +/-infinity; rounding is abstracted away.              *)
(***************************************************************************)
EXTENDS Integers, Sequences, FiniteSets, TLC

VARIABLES
  pc,       \* "ready" before the call, "done" after it
  op,       \* the entry point this behaviour calls
  fin_df,   \* the input table of compute_indicators / build_indicators
  labels,   \* the input list of the period sorters
  S,        \* compute_indicators: the fetched series, one per alias key
  years,    \* compute_indicators: the period columns
  loc,      \* compute_indicators: per period, the values the loop body reads
  view,     \* compute_indicators: the returned table, or the exception raised
  found,    \* build_indicators: the series _find_series returned
  ratios,   \* build_indicators: the returned table
  ordered,  \* the period sorters: the returned list
  asked,    \* fetch_metric_series: the alias key asked for
  metric,   \* fetch_metric_series: the returned series, or the exception raised
  disk,     \* the file at data/bctc_final.csv: [exists, lines]
  cache,    \* st.cache_data: per memoized loader the stored value
  result    \* what a file reader or a display_year builder returned

vars ==
  <<pc, op, fin_df, labels, S, years, loc, view, found, ratios, ordered, asked, metric, disk, cache, result>>

(***************************************************************************)
(* Characters and strings                                                  *)
(***************************************************************************)
Ascii ==
  <<" ","!","\"","#","$","%","&","'","(",")","*","+",",","-",".","/","0","1","2","3","4","5","6","7","8","9",":",";","<","=",">","?","@","A","B","C","D","E","F","G","H","I","J","K","L","M","N","O","P","Q","R","S","T","U","V","W","X","Y","Z","[","\\","]","^","_","u0060","a","b","c","d","e","f","g","h","i","j","k","l","m","n","o","p","q","r","s","t","u","v","w","x","y","z","{","|","}","~">>

NonAscii ==
  <<"u00E0","u00E1","u00E3","u00EA","u00ED","u0103","u0111","u01A1","u01B0","u1EA1","u1EA3","u1EA7","u1EAD","u1EAF","u1EBF","u1EC1","u1EC9","u1ECB","u1ED1","u1ED3","u1ED5","u1ED9","u1EDF","u1EE3","u1EE7","u1EEB","u1EEF","u1EF3">>

Digits == <<"0","1","2","3","4","5","6","7","8","9">>

\* a list built by comprehension, as a tuple
Tup(f) == f \o <<>>

RECURSIVE IndexOf(_, _, _)
IndexOf(seq, c, i) ==
  IF i > Len(seq) THEN 0
  ELSE IF seq[i] = c THEN i ELSE IndexOf(seq, c, i + 1)

\* Python's ord(): the code point (non-ASCII ones keep their relative order)
Ord(c) ==
  LET a == IndexOf(Ascii, c, 1)
  IN  IF a > 0 THEN a + 31 ELSE 127 + IndexOf(NonAscii, c, 1)

IsDigit(c) == c \in {"0","1","2","3","4","5","6","7","8","9"}

DigitVal(c) == IndexOf(Digits, c, 1) - 1

\* str.lower() on one character
LowerMap ==
  [ A |-> "a", B |-> "b", C |-> "c", D |-> "d", E |-> "e", F |-> "f", G |-> "g", H |-> "h",
    I |-> "i", J |-> "j", K |-> "k", L |-> "l", M |-> "m", N |-> "n", O |-> "o", P |-> "p",
    Q |-> "q", R |-> "r", S |-> "s", T |-> "t", U |-> "u", V |-> "v", W |-> "w", X |-> "x",
    Y |-> "y", Z |-> "z" ]

LowerChar(c) == IF c \in DOMAIN LowerMap THEN LowerMap[c] ELSE c

Lower(s) == Tup([i \in 1..Len(s) |-> LowerChar(s[i])])

AlnumLowerSet ==
  {LowerMap[u] : u \in DOMAIN LowerMap} \cup {"0","1","2","3","4","5","6","7","8","9"}

IsAlnumLower(c) == c \in AlnumLowerSet

\* _norm: lower-case, then keep letters a-z and digits only
Norm(s) == SelectSeq(Lower(s), IsAlnumLower)

\* Python's  sub in s
Contains(sub, s) ==
  \E i \in 0..(Len(s) - Len(sub)) : SubSeq(s, i + 1, i + Len(sub)) = sub

EndsWith(s, c) == Len(s) > 0 /\ s[Len(s)] = c

\* Python's  a < b  on str
RECURSIVE LexLess(_, _)
LexLess(a, b) ==
  IF Len(b) = 0 THEN FALSE
  ELSE IF Len(a) = 0 THEN TRUE
  ELSE IF a[1] = b[1] THEN LexLess(Tail(a), Tail(b))
  ELSE Ord(a[1]) < Ord(b[1])

\* str.strip() (blanks only)
RECURSIVE LStrip(_)
LStrip(s) == IF Len(s) > 0 /\ s[1] = " " THEN LStrip(Tail(s)) ELSE s

RECURSIVE RStrip(_)
RStrip(s) ==
  IF Len(s) > 0 /\ s[Len(s)] = " " THEN RStrip(SubSeq(s, 1, Len(s) - 1)) ELSE s

Strip(s) == RStrip(LStrip(s))

RECURSIVE DigitsValue(_)
DigitsValue(s) ==
  IF Len(s) = 0 THEN 0
  ELSE 10 * DigitsValue(SubSeq(s, 1, Len(s) - 1)) + DigitVal(s[Len(s)])

AllDigits(s) == \A i \in 1..Len(s) : IsDigit(s[i])

\* str(n) for an int n >= 0
RECURSIVE NatStr(_)
NatStr(n) ==
  IF n < 10 THEN <<Digits[n + 1]>> ELSE NatStr(n \div 10) \o <<Digits[(n % 10) + 1]>>

\* sorted(): a stable sort of a list under the strict order  less(a, b)
InsertSorted(x, sorted, less(_, _)) ==
  LET after == {i \in 1..Len(sorted) : less(x, sorted[i])}
      pos == IF after = {} THEN Len(sorted) + 1
             ELSE CHOOSE i \in after : \A j \in after : i <= j
  IN  SubSeq(sorted, 1, pos - 1) \o <<x>> \o SubSeq(sorted, pos, Len(sorted))

StableSort(seq, less(_, _)) ==
  LET f[n \in 0..Len(seq)] ==
        IF n = 0 THEN <<>> ELSE InsertSorted(seq[n], f[n - 1], less)
  IN  f[Len(seq)]

\* the elements of a list, duplicates removed, first occurrence kept
RECURSIVE Unique(_)
Unique(seq) ==
  IF Len(seq) = 0 THEN <<>>
  ELSE LET r == Unique(SubSeq(seq, 1, Len(seq) - 1))
           x == seq[Len(seq)]
       IN  IF \E i \in 1..Len(r) : r[i] = x THEN r ELSE Append(r, x)

Range(seq) == {seq[i] : i \in 1..Len(seq)}

(***************************************************************************)
(* Floats: [k, n, d, t] with k = "num" (the rational n/d, d > 0, reduced), *)
(* "nan", "inf", "ninf"; a raw cell may also be k = "text" with text t.    *)
(***************************************************************************)
RECURSIVE GCD(_, _)
GCD(a, b) == IF b = 0 THEN a ELSE GCD(b, a % b)

Abs(x) == IF x < 0 THEN 0 - x ELSE x

NaN == [k |-> "nan", n |-> 0, d |-> 1, t |-> <<>>]
Inf == [k |-> "inf", n |-> 0, d |-> 1, t |-> <<>>]
NInf == [k |-> "ninf", n |-> 0, d |-> 1, t |-> <<>>]

Rat(n, d) ==
  LET g == GCD(Abs(n), Abs(d))
      s == IF d < 0 THEN 0 - 1 ELSE 1
  IN  [k |-> "num", n |-> (s * n) \div g, d |-> (s * d) \div g, t |-> <<>>]

Num(n) == Rat(n, 1)

Text(s) == [k |-> "text", n |-> 0, d |-> 1, t |-> s]

IsFinite(a) == a.k = "num"

IsNaN(a) == a.k = "nan"

IsZero(a) == a.k = "num" /\ a.n = 0

Sign(a) ==
  CASE a.k = "inf" -> 1
    [] a.k = "ninf" -> 0 - 1
    [] OTHER -> IF a.n > 0 THEN 1 ELSE IF a.n < 0 THEN 0 - 1 ELSE 0

FAdd(a, b) ==
  IF IsNaN(a) \/ IsNaN(b) THEN NaN
  ELSE IF IsFinite(a) /\ IsFinite(b) THEN Rat(a.n * b.d + b.n * a.d, a.d * b.d)
  ELSE IF IsFinite(a) THEN b
  ELSE IF IsFinite(b) THEN a
  ELSE IF a.k = b.k THEN a ELSE NaN

FSub(a, b) ==
  FAdd(a, CASE b.k = "num" -> Rat(0 - b.n, b.d)
            [] b.k = "inf" -> NInf
            [] b.k = "ninf" -> Inf
            [] OTHER -> NaN)

FDiv(a, b) ==
  IF IsNaN(a) \/ IsNaN(b) THEN NaN
  ELSE IF IsFinite(a) /\ IsFinite(b)
       THEN IF b.n # 0 THEN Rat(a.n * b.d, a.d * b.n)
            ELSE IF a.n = 0 THEN NaN
            ELSE IF a.n > 0 THEN Inf ELSE NInf
  ELSE IF IsFinite(a) THEN Num(0)
  ELSE IF IsFinite(b)
       THEN IF Sign(a) * (IF Sign(b) < 0 THEN 0 - 1 ELSE 1) > 0 THEN Inf ELSE NInf
  ELSE NaN

RECURSIVE Pow10(_)
Pow10(e) == IF e = 0 THEN 1 ELSE 10 * Pow10(e - 1)

\* pd.to_numeric(errors="coerce") on one cell: a float stays, a text is parsed
\* as  [+-] digits [. digits]  and is NaN when it is anything else
ParseFloat(s0) ==
  LET s == Strip(s0)
      neg == Len(s) > 0 /\ s[1] = "-"
      body == IF Len(s) > 0 /\ (s[1] = "-" \/ s[1] = "+") THEN Tail(s) ELSE s
      dot == IndexOf(body, ".", 1)
      ip == IF dot = 0 THEN body ELSE SubSeq(body, 1, dot - 1)
      fp == IF dot = 0 THEN <<>> ELSE SubSeq(body, dot + 1, Len(body))
  IN  IF AllDigits(ip) /\ AllDigits(fp) /\ Len(ip) + Len(fp) > 0
      THEN Rat((IF neg THEN 0 - 1 ELSE 1) * DigitsValue(ip \o fp), Pow10(Len(fp)))
      ELSE NaN

ToNumeric(cell) == IF cell.k = "text" THEN ParseFloat(cell.t) ELSE cell

\* astype(str) on one cell (labels are text; an int prints as its digits)
Str(cell) ==
  CASE cell.k = "text" -> cell.t
    [] cell.k = "num" /\ cell.d = 1 ->
         IF cell.n < 0 THEN <<"-">> \o NatStr(0 - cell.n) ELSE NatStr(cell.n)
    [] cell.k = "inf" -> <<"i","n","f">>
    [] cell.k = "ninf" -> <<"-","i","n","f">>
    [] OTHER -> <<"n","a","n">>

\* sum(skipna=True) of a list of floats: NaN entries are skipped, so the sum
\* of no entries, or of NaN entries only, is 0.0
RECURSIVE SumSkipNa(_)
SumSkipNa(vals) ==
  IF Len(vals) = 0 THEN Num(0)
  ELSE LET r == SumSkipNa(Tail(vals))
       IN  IF IsNaN(vals[1]) THEN r ELSE FAdd(vals[1], r)


(***************************************************************************)
(* Tables.  A DataFrame is [columns, rows]: the column names and, per row, *)
(* one cell per column.  A Series is a list of [i, v]: index label and     *)
(* float.  A call that may raise returns [exc, ...], exc = "" on success.  *)
(***************************************************************************)
Min(set) == CHOOSE x \in set : \A y \in set : x <= y

HasColumn(df, name) == \E i \in 1..Len(df.columns) : df.columns[i] = name

ColIndex(df, name) == Min({i \in 1..Len(df.columns) : df.columns[i] = name})

\* df[name]: the cells of one column, row by row
Column(df, name) ==
  LET c == ColIndex(df, name) IN Tup([r \in 1..Len(df.rows) |-> df.rows[r][c]])

None == [some |-> FALSE, name |-> <<>>]

Some(name) == [some |-> TRUE, name |-> name]

\* the raw column that  {_norm(c): c for c in df.columns}  keeps for a key
LastWithNorm(cols, key) ==
  cols[CHOOSE i \in 1..Len(cols) :
         /\ Norm(cols[i]) = key
         /\ \A j \in (i + 1)..Len(cols) : Norm(cols[j]) # key]

NormList(strs) == Tup([i \in 1..Len(strs) |-> Norm(strs[i])])

\* the two passes of _pickcol (lines 21-31) over the keys of cols_norm and the
\* normalised candidates: an equal key first, then a key containing a candidate
PickNorm(cols, keys, cands) ==
  LET exact == {i \in 1..Len(cands) : \E j \in 1..Len(keys) : keys[j] = cands[i]}
      part(i) == {j \in 1..Len(keys) : cands[i] # <<>> /\ Contains(cands[i], keys[j])}
      partial == {i \in 1..Len(cands) : part(i) # {}}
  IN  IF exact # {} THEN Some(LastWithNorm(cols, cands[Min(exact)]))
      ELSE IF partial # {} THEN Some(LastWithNorm(cols, keys[Min(part(Min(partial)))]))
      ELSE None

PickCol(df, candidates) ==
  IF Len(df.rows) = 0 \/ Len(df.columns) = 0 THEN None
  ELSE PickNorm(df.columns, Unique(NormList(df.columns)), NormList(candidates))

\* safe_div: NaN unless both operands are finite and the divisor is not 0
safe_div(a, b) ==
  IF ~IsFinite(a) \/ ~IsFinite(b) \/ IsZero(b) THEN NaN ELSE FDiv(a, b)

ALIAS ==
  [
    revenue |-> <<
        <<"n","e","t"," ","r","e","v","e","n","u","e">>,   \* net revenue
        <<"r","e","v","e","n","u","e">>,   \* revenue
        <<"n","e","t"," ","s","a","l","e","s">>,   \* net sales
        <<"d","o","a","n","h"," ","t","h","u">>,   \* doanh thu
        <<"d","o","a","n","h","t","h","u">>,   \* doanhthu
        <<"d","o","a","n","h","t","h","u"," ","t","h","u","u1EA7","n">>   \* doanhthu thu\u1ea7n
      >>,
    cogs |-> <<
        <<"c","o","g","s">>,   \* cogs
        <<"c","o","s","t"," ","o","f"," ","g","o","o","d","s"," ","s","o","l","d">>,   \* cost of goods sold
        <<"g","i","u00E1"," ","v","u1ED1","n">>,   \* gi\xe1 v\u1ed1n
        <<"g","i","a"," ","v","o","n">>,   \* gia von
        <<"g","i","a","v","o","n","h","a","n","g","b","a","n">>   \* giavonhangban
      >>,
    gross_profit |-> <<
        <<"g","r","o","s","s"," ","p","r","o","f","i","t">>,   \* gross profit
        <<"l","o","i"," ","n","h","u","a","n"," ","g","o","p">>,   \* loi nhuan gop
        <<"l","u1EE3","i"," ","n","h","u","u1EAD","n"," ","g","u1ED9","p">>   \* l\u1ee3i nhu\u1eadn g\u1ed9p
      >>,
    ebit |-> <<
        <<"e","b","i","t">>,   \* ebit
        <<"o","p","e","r","a","t","i","n","g"," ","p","r","o","f","i","t">>,   \* operating profit
        <<"o","p","e","r","a","t","i","n","g"," ","i","n","c","o","m","e">>,   \* operating income
        <<"p","r","o","f","i","t","(","l","o","s","s",")"," ","f","r","o","m"," ","b","u","s","i","n","e","s","s"," ","a","c","t","i","v","i","t","i","e","s">>,   \* profit(loss) from business activities
        <<"l","o","i"," ","n","h","u","a","n"," ","t","u"," ","h","o","a","t"," ","d","o","n","g"," ","k","i","n","h"," ","d","o","a","n","h">>,   \* loi nhuan tu hoat dong kinh doanh
        <<"l","n","k","d">>,   \* lnkd
        <<"l","u1EE3","i"," ","n","h","u","u1EAD","n"," ","t","u1EEB"," ","h","o","u1EA1","t"," ","u0111","u1ED9","n","g"," ","k","i","n","h"," ","d","o","a","n","h">>   \* l\u1ee3i nhu\u1eadn t\u1eeb ho\u1ea1t \u0111\u1ed9ng kinh doanh
      >>,
    ebitda |-> <<
        <<"e","b","i","t","d","a">>   \* ebitda
      >>,
    interest_exp |-> <<
        <<"i","n","t","e","r","e","s","t"," ","e","x","p","e","n","s","e">>,   \* interest expense
        <<"i","n","t","e","r","e","s","t"," ","e","x","p","e","n","s","e","s">>,   \* interest expenses
        <<"c","h","i"," ","p","h","i"," ","l","a","i"," ","v","a","y">>,   \* chi phi lai vay
        <<"c","h","i"," ","p","h","u00ED"," ","l","u00E3","i"," ","v","a","y">>   \* chi ph\xed l\xe3i vay
      >>,
    net_profit |-> <<
        <<"n","e","t"," ","p","r","o","f","i","t">>,   \* net profit
        <<"n","e","t"," ","i","n","c","o","m","e">>,   \* net income
        <<"p","r","o","f","i","t"," ","a","f","t","e","r"," ","t","a","x">>,   \* profit after tax
        <<"l","u1EE3","i"," ","n","h","u","u1EAD","n"," ","s","a","u"," ","t","h","u","u1EBF">>,   \* l\u1ee3i nhu\u1eadn sau thu\u1ebf
        <<"l","n","s","t">>   \* lnst
      >>,
    current_assets |-> <<
        <<"c","u","r","r","e","n","t"," ","a","s","s","e","t","s">>,   \* current assets
        <<"t","u00E0","i"," ","s","u1EA3","n"," ","n","g","u1EAF","n"," ","h","u1EA1","n">>,   \* t\xe0i s\u1ea3n ng\u1eafn h\u1ea1n
        <<"t","s","n","h">>   \* tsnh
      >>,
    cash |-> <<
        <<"c","a","s","h"," ","a","n","d"," ","c","a","s","h"," ","e","q","u","i","v","a","l","e","n","t","s">>,   \* cash and cash equivalents
        <<"t","i","u1EC1","n"," ","v","u00E0"," ","t","u01B0","u01A1","n","g"," ","u0111","u01B0","u01A1","n","g"," ","t","i","u1EC1","n">>,   \* ti\u1ec1n v\xe0 t\u01b0\u01a1ng \u0111\u01b0\u01a1ng ti\u1ec1n
        <<"t","i","e","n">>   \* tien
      >>,
    receivables |-> <<
        <<"a","c","c","o","u","n","t","s"," ","r","e","c","e","i","v","a","b","l","e">>,   \* accounts receivable
        <<"p","h","a","i"," ","t","h","u">>,   \* phai thu
        <<"p","h","u1EA3","i"," ","t","h","u">>,   \* ph\u1ea3i thu
        <<"t","r","a","d","e"," ","r","e","c","e","i","v","a","b","l","e","s">>   \* trade receivables
      >>,
    inventory |-> <<
        <<"i","n","v","e","n","t","o","r","y">>,   \* inventory
        <<"i","n","v","e","n","t","o","r","i","e","s">>,   \* inventories
        <<"h","u00E0","n","g"," ","t","u1ED3","n"," ","k","h","o">>,   \* h\xe0ng t\u1ed3n kho
        <<"h","a","n","g"," ","t","o","n"," ","k","h","o">>,   \* hang ton kho
        <<"h","t","k">>   \* htk
      >>,
    current_liab |-> <<
        <<"c","u","r","r","e","n","t"," ","l","i","a","b","i","l","i","t","i","e","s">>,   \* current liabilities
        <<"n","u1EE3"," ","p","h","u1EA3","i"," ","t","r","u1EA3"," ","n","g","u1EAF","n"," ","h","u1EA1","n">>,   \* n\u1ee3 ph\u1ea3i tr\u1ea3 ng\u1eafn h\u1ea1n
        <<"n","o"," ","n","g","a","n"," ","h","a","n">>   \* no ngan han
      >>,
    total_assets |-> <<
        <<"t","o","t","a","l"," ","a","s","s","e","t","s">>,   \* total assets
        <<"t","o","n","g"," ","t","a","i"," ","s","a","n">>,   \* tong tai san
        <<"t","u1ED5","n","g"," ","t","u00E0","i"," ","s","u1EA3","n">>   \* t\u1ed5ng t\xe0i s\u1ea3n
      >>,
    total_liab |-> <<
        <<"l","i","a","b","i","l","i","t","i","e","s">>,   \* liabilities
        <<"t","o","t","a","l"," ","l","i","a","b","i","l","i","t","i","e","s">>,   \* total liabilities
        <<"t","o","n","g"," ","n","o"," ","p","h","a","i"," ","t","r","a">>,   \* tong no phai tra
        <<"t","u1ED5","n","g"," ","n","u1EE3"," ","p","h","u1EA3","i"," ","t","r","u1EA3">>   \* t\u1ed5ng n\u1ee3 ph\u1ea3i tr\u1ea3
      >>,
    equity |-> <<
        <<"e","q","u","i","t","y">>,   \* equity
        <<"o","w","n","e","r","'","s"," ","e","q","u","i","t","y">>,   \* owner's equity
        <<"v","u1ED1","n"," ","c","h","u1EE7"," ","s","u1EDF"," ","h","u1EEF","u">>,   \* v\u1ed1n ch\u1ee7 s\u1edf h\u1eefu
        <<"v","o","n"," ","c","h","u"," ","s","o"," ","h","u","u">>   \* von chu so huu
      >>,
    st_debt |-> <<
        <<"s","h","o","r","t","-","t","e","r","m"," ","l","o","a","n","s">>,   \* short-term loans
        <<"s","h","o","r","t","-","t","e","r","m"," ","b","o","r","r","o","w","i","n","g","s">>,   \* short-term borrowings
        <<"v","a","y"," ","n","g","a","n"," ","h","a","n">>,   \* vay ngan han
        <<"n","o"," ","n","g","a","n"," ","h","a","n"," ","v","a","y">>   \* no ngan han vay
      >>,
    lt_debt |-> <<
        <<"l","o","n","g","-","t","e","r","m"," ","l","o","a","n","s">>,   \* long-term loans
        <<"l","o","n","g","-","t","e","r","m"," ","b","o","r","r","o","w","i","n","g","s">>,   \* long-term borrowings
        <<"v","a","y"," ","d","a","i"," ","h","a","n">>,   \* vay dai han
        <<"n","o"," ","d","a","i"," ","h","a","n"," ","v","a","y">>   \* no dai han vay
      >>,
    operating_income |-> <<
        <<"o","p","e","r","a","t","i","n","g"," ","i","n","c","o","m","e">>,   \* operating income
        <<"l","n","k","d">>,   \* lnkd
        <<"p","r","o","f","i","t","(","l","o","s","s",")"," ","f","r","o","m"," ","b","u","s","i","n","e","s","s"," ","a","c","t","i","v","i","t","i","e","s">>   \* profit(loss) from business activities
      >>,
    depr |-> <<
        <<"d","e","p","r","e","c","i","a","t","i","o","n">>,   \* depreciation
        <<"k","h","a","u"," ","h","a","o">>,   \* khau hao
        <<"d","e","p","r","e","c","i","a","t","i","o","n"," ","o","f"," ","f","i","x","e","d"," ","a","s","s","e","t","s">>   \* depreciation of fixed assets
      >>
  ]


\* the alias keys compute_indicators fetches, in order
FetchKeys ==
  << "revenue", "cogs", "gross_profit", "ebit", "ebitda", "interest_exp", "net_profit",
     "current_assets", "cash", "receivables", "inventory", "current_liab",
     "total_assets", "total_liab", "equity", "st_debt", "lt_debt", "operating_income",
     "depr" >>

\* the dict S: one series per alias key, from the list of fetched series
SeriesByKey(t) ==
  [ revenue |-> t[1], cogs |-> t[2], gross_profit |-> t[3], ebit |-> t[4], ebitda |-> t[5],
    interest_exp |-> t[6], net_profit |-> t[7], current_assets |-> t[8], cash |-> t[9],
    receivables |-> t[10], inventory |-> t[11], current_liab |-> t[12],
    total_assets |-> t[13], total_liab |-> t[14], equity |-> t[15], st_debt |-> t[16],
    lt_debt |-> t[17], operating_income |-> t[18], depr |-> t[19] ]

\* _norm(p) of every pattern of every alias key
NormAlias == SeriesByKey(Tup([k \in 1..Len(FetchKeys) |-> Tup([i \in 1..Len(ALIAS[FetchKeys[k]]) |-> Norm(ALIAS[FetchKeys[k]][i])])]))

SeriesIndex(ser) == Tup([j \in 1..Len(ser) |-> ser[j].i])

\* ser.get(y, nan)
Get(ser, y) ==
  LET at == {j \in 1..Len(ser) : ser[j].i = y}
  IN  IF at = {} THEN NaN ELSE ser[Min(at)].v

\* ser.reindex(index)
Reindex(ser, index) ==
  Tup([j \in 1..Len(index) |-> [i |-> index[j], v |-> Get(ser, index[j])]])

\* int(re.sub(r"[^0-9\-]", "", x) or 0): ok = FALSE when int() raises ValueError
IsDigitOrMinus(c) == IsDigit(c) \/ c = "-"

IntKey(x) ==
  LET f == SelectSeq(x, IsDigitOrMinus)
  IN  IF Len(f) = 0 THEN [ok |-> TRUE, v |-> 0]
      ELSE IF AllDigits(f) THEN [ok |-> TRUE, v |-> DigitsValue(f)]
      ELSE IF f[1] = "-" /\ Len(f) > 1 /\ AllDigits(Tail(f))
           THEN [ok |-> TRUE, v |-> 0 - DigitsValue(Tail(f))]
      ELSE [ok |-> FALSE, v |-> 0]

IntKeyLess(a, b) == IntKey(a).v < IntKey(b).v

LexSort(seq) == StableSort(seq, LexLess)

\* sorted(index, key=int(...)) inside try, sort_index() in the except branch
NumericOrder(index) ==
  IF \A j \in 1..Len(index) : IntKey(index[j]).ok
  THEN StableSort(index, IntKeyLess)
  ELSE LexSort(index)

\* _match_alias: the positions of the columns whose _norm (given in norm)
\* contains a non-empty normalised pattern, each column name once
MatchAlias(columns, norm, pats) ==
  LET hit(c) == \E i \in 1..Len(pats) : pats[i] # <<>> /\ Contains(pats[i], norm[c])
      first(c) == \A b \in 1..(c - 1) : columns[b] # columns[c]
  IN  SelectSeq(Tup([c \in 1..Len(columns) |-> c]), LAMBDA c : hit(c) /\ first(c))

\* lines 135-139: an all-NaN series over the index when no column matched,
\* else the row sums of the matched columns after to_numeric
SumColumns(base, hits) ==
  IF Len(hits) = 0
  THEN Tup([r \in 1..Len(base.index) |-> [i |-> base.index[r], v |-> NaN]])
  ELSE Tup([r \in 1..Len(base.index) |->
              [i |-> base.index[r],
               v |-> SumSkipNa(Tup([h \in 1..Len(hits) |->
                                      ToNumeric(base.rows[r][hits[h]])]))]])

\* _extract_series_wide: base is the table indexed by year label; base.norm
\* holds _norm(c) of every column c
ExtractSeriesWide(base, alias_key) ==
  SumColumns(base, MatchAlias(base.columns, base.norm, NormAlias[alias_key]))

StmtCandidates ==
  <<<<"S","t","a","t","e","m","e","n","t">>,
     <<"B","C","T","C">>,
     <<"L","o","u1EA1","i">>,
     <<"S","h","e","e","t">>>>

ItemCandidates ==
  <<<<"L","i","n","e","I","t","e","m">>,
     <<"I","t","e","m">>,
     <<"C","h","u1EC9"," ","t","i","u00EA","u">>,
     <<"C","h","i"," ","t","i","e","u">>>>

YearCandidatesLong ==
  <<<<"d","i","s","p","l","a","y","_","y","e","a","r">>,
     <<"Y","e","a","r">>,
     <<"N","u0103","m">>,
     <<"N","a","m">>,
     <<"y","e","a","r","_","l","a","b","e","l">>>>

ValueCandidates ==
  <<<<"V","a","l","u","e">>,
     <<"G","i","u00E1"," ","t","r","u1ECB">>,
     <<"G","i","a"," ","t","r","i">>,
     <<"A","m","o","u","n","t">>>>

YearCandidatesWide ==
  <<<<"d","i","s","p","l","a","y","_","y","e","a","r">>,
     <<"y","e","a","r">>,
     <<"Y","e","a","r">>,
     <<"y","e","a","r","_","l","a","b","e","l">>,
     <<"N","u0103","m">>,
     <<"N","a","m">>>>

DisplayYear == <<"d","i","s","p","l","a","y","_","y","e","a","r">>

AnyStatement ==
  <<<<"i","n","c","o","m","e">>,
     <<"b","a","l","a","n","c","e">>,
     <<"c","a","s","h">>>>

\* groupby(year)[value].sum(): one entry per distinct year, keys in sorted
\* order, the NaN values of a group skipped by the sum
\* seq[idx[1]], seq[idx[2]], ...
Pick(seq, idx) == Tup([j \in 1..Len(idx) |-> seq[idx[j]]])

\* a group reduced to the value of its first row
FirstOfGroup(yrs, vals, k) ==
  Pick(vals, SelectSeq(Tup([r \in 1..Len(yrs) |-> r]), LAMBDA r : yrs[r] = k))[1]

\* the sum of the values of the rows whose key is k
GroupOf(yrs, vals, k) ==
  SumSkipNa(Pick(vals, SelectSeq(Tup([r \in 1..Len(yrs) |-> r]), LAMBDA r : yrs[r] = k)))

SumPerKey(yrs, vals, keys) ==
  Tup([j \in 1..Len(keys) |-> [i |-> keys[j], v |-> GroupOf(yrs, vals, keys[j])]])

GroupSum(yrs, vals) == SumPerKey(yrs, vals, LexSort(Unique(yrs)))

NoFrame == [ok |-> FALSE, item |-> <<>>, year |-> <<>>, value |-> <<>>]

\* lines 158-160: the rows whose normalised statement contains one of the
\* normalised statements (every row when no statement is given)
StatementRows(stmt, nstmts) ==
  SelectSeq(Tup([r \in 1..Len(stmt) |-> r]),
            LAMBDA r : \/ Len(nstmts) = 0
                       \/ \E s \in 1..Len(nstmts) :
                            Contains(nstmts[s], Norm(Lower(Str(stmt[r])))))

\* lines 153-155 on the kept rows: item holds _norm of the line item, year
\* the year as text, value the to_numeric of the value
KeptRows(keep, item, yr, val) ==
  [ok |-> TRUE,
   item |-> Tup([j \in 1..Len(keep) |-> Norm(Str(item[keep[j]]))]),
   year |-> Tup([j \in 1..Len(keep) |-> Str(yr[keep[j]])]),
   value |-> Tup([j \in 1..Len(keep) |-> ToNumeric(val[keep[j]])])]

\* lines 150-160 given the four picked columns
LongFrameOf(df, statements, stmt_col, item_col, year_col, val_col) ==
  IF ~(stmt_col.some /\ item_col.some /\ year_col.some /\ val_col.some)
  THEN NoFrame
  ELSE KeptRows(StatementRows(Column(df, stmt_col.name), NormList(statements)),
                Column(df, item_col.name), Column(df, year_col.name),
                Column(df, val_col.name))

\* _extract_series_long, lines 146-160: the four columns, the casts and the
\* statement filter
LongFrame(df, statements) ==
  LongFrameOf(df, statements, PickCol(df, StmtCandidates), PickCol(df, ItemCandidates),
              PickCol(df, YearCandidatesLong), PickCol(df, ValueCandidates))

\* line 166: the rows whose normalised line item contains a normalised pattern
ItemRows(items, pats) ==
  SelectSeq(Tup([r \in 1..Len(items) |-> r]),
            LAMBDA r : \E p \in 1..Len(pats) : Contains(pats[p], items[r]))

\* lines 174-177
OrderedByYear(ser) == Reindex(ser, NumericOrder(SeriesIndex(ser)))

\* lines 169-178
SumByYear(frame, keep) ==
  IF Len(keep) = 0 THEN <<>>
  ELSE OrderedByYear(GroupSum(Pick(frame.year, keep), Pick(frame.value, keep)))

\* _extract_series_long, lines 162-178: the alias filter, the sum per year
\* and the ordering of the index
LongSeries(frame, alias_key) ==
  IF ~frame.ok THEN <<>>
  ELSE IF Len(NormAlias[alias_key]) = 0 THEN <<>>
  ELSE SumByYear(frame, ItemRows(frame.item, NormAlias[alias_key]))

ExtractSeriesLong(df, statements, alias_key) ==
  LongSeries(LongFrame(df, statements), alias_key)

Ok(ser) == [exc |-> "", ser |-> ser]

Raise(exc) == [exc |-> exc, ser |-> <<>>]

\* drop_duplicates(subset=[y]): the rows whose y cell did not occur before
FirstOccurrences(cells) ==
  SelectSeq(Tup([r \in 1..Len(cells) |-> r]),
            LAMBDA r : \A q \in 1..(r - 1) : cells[q] # cells[r])

NoBase == [index |-> <<>>, columns |-> <<>>, norm |-> <<>>, rows |-> <<>>]

\* fetch_metric_series, lines 190-198: the table indexed by year label, or
\* the exception raised while building it
\* line 190-195: the year column, "display_year" when none is picked
OrElse(picked, default) == IF picked.some THEN picked.name ELSE default

\* sort_index(): the row numbers in the order of their index labels
IndexOrder(index) ==
  StableSort(Tup([r \in 1..Len(index) |-> r]), LAMBDA a, b : LexLess(index[a], index[b]))

SortedBase(df, index, order) ==
  [exc |-> "",
   base |-> [index |-> Pick(index, order),
             columns |-> df.columns,
             norm |-> NormList(df.columns),
             rows |-> Pick(df.rows, order)]]

IndexedBy(df, index) == SortedBase(df, index, IndexOrder(index))

\* drop_duplicates(subset=[y]).set_index(fin_df[y].astype(str)).sort_index():
\* set_index raises ValueError when rows were dropped (length mismatch)
SetIndex(df, ycells) ==
  IF Len(FirstOccurrences(ycells)) # Len(df.rows)
  THEN [exc |-> "ValueError", base |-> NoBase]
  ELSE IndexedBy(df, Tup([r \in 1..Len(ycells) |-> Str(ycells[r])]))

\* line 196: fin_df has no column y (KeyError) when no year column was picked
WideBaseOn(df, y) ==
  IF ~HasColumn(df, y) THEN [exc |-> "KeyError", base |-> NoBase]
  ELSE SetIndex(df, Column(df, y))

WideBase(df) == WideBaseOn(df, OrElse(PickCol(df, YearCandidatesWide), DisplayYear))

\* lines 186-199 given the long-form series
LongOrWide(ser, wide, alias_key) ==
  IF Len(ser) > 0 THEN Ok(ser)
  ELSE IF wide.exc # "" THEN Raise(wide.exc)
  ELSE Ok(ExtractSeriesWide(wide.base, alias_key))

\* fetch_metric_series: the long-form series when it is not empty, else the
\* wide-form fallback
FetchFrom(frame, wide, alias_key) ==
  LongOrWide(LongSeries(frame, alias_key), wide, alias_key)

FetchMetricSeries(df, alias_key) ==
  FetchFrom(LongFrame(df, AnyStatement), WideBase(df), alias_key)

(***************************************************************************)
(* Indicator computation                                                   *)
(***************************************************************************)
\* the catalogue with its first two names exchanged
ExchangedOrder ==
  << "Quick Ratio", "Current Ratio", "Working Capital to Total Assets", "Debt to Assets",
     "Debt to Equity", "Equity to Liabilities", "Long Term Debt to Assets",
     "Net Debt to Equity", "Receivables Turnover", "Inventory Turnover", "Asset Turnover",
     "ROA", "ROE", "EBIT to Assets", "Operating Income to Debt", "Net Profit Margin",
     "Gross Margin", "Interest Coverage", "EBITDA to Interest", "Total Debt to EBITDA" >>

INDICATOR_ORDER ==
  << "Current Ratio",
     "Quick Ratio",
     "Working Capital to Total Assets",
     "Debt to Assets",
     "Debt to Equity",
     "Equity to Liabilities",
     "Long Term Debt to Assets",
     "Net Debt to Equity",
     "Receivables Turnover",
     "Inventory Turnover",
     "Asset Turnover",
     "ROA",
     "ROE",
     "EBIT to Assets",
     "Operating Income to Debt",
     "Net Profit Margin",
     "Gross Margin",
     "Interest Coverage",
     "EBITDA to Interest",
     "Total Debt to EBITDA" >>

\* an average that falls back to the value of the period alone in the first
\* position
AverageOrCurrent(s) ==
  Tup([j \in 1..Len(s) |->
         [i |-> s[j].i,
          v |-> FDiv(FAdd(s[j].v, IF j = 1 THEN s[1].v ELSE s[j - 1].v), Num(2))]])

\* (s + s.shift(1)) / 2.0, position by position; the first position has no
\* predecessor and is NaN
ShiftAverage(s) ==
  Tup([j \in 1..Len(s) |->
         [i |-> s[j].i,
          v |-> FDiv(FAdd(s[j].v, IF j = 1 THEN NaN ELSE s[j - 1].v), Num(2))]])

\* _avg_series
AvgSeries(ser) ==
  IF Len(ser) = 0 THEN <<>>
  ELSE ShiftAverage(Reindex(ser, NumericOrder(SeriesIndex(ser))))

\* _first_non_nan
RECURSIVE FirstNonNan(_)
FirstNonNan(vals) ==
  IF Len(vals) = 0 THEN NaN
  ELSE IF IsFinite(vals[1]) THEN vals[1] ELSE FirstNonNan(Tail(vals))

\* series.replace([inf, -inf], nan)
ReplaceInf(v) == IF v.k = "inf" \/ v.k = "ninf" THEN NaN ELSE v

\* an operand of line 263-264: a Series, or the int 0 the code puts in the
\* place of an empty one
Scalar0 == [scalar |-> TRUE, ser |-> <<>>]

AsSeries(ser) == [scalar |-> FALSE, ser |-> ser]

\* Series + Series (same index), Series + 0, 0 + 0
AddAligned(a, b) ==
  IF a.scalar THEN b
  ELSE IF b.scalar THEN a
  ELSE AsSeries(Tup([j \in 1..Len(a.ser) |->
                       [i |-> a.ser[j].i, v |-> FAdd(a.ser[j].v, b.ser[j].v)]]))

MapSeries(ser, F(_)) ==
  Tup([j \in 1..Len(ser) |-> [i |-> ser[j].i, v |-> F(ser[j].v)]])

\* a total debt that leaves the short-term component out
LongTermDebtOnly(Sr, yrs) == AsSeries(Reindex(Sr["lt_debt"], yrs))

\* lines 262-265: total_debt, an int when both debt series are empty
TotalDebt(Sr, yrs) ==
  LET sum == AddAligned(
               IF Len(Sr["st_debt"]) > 0 THEN AsSeries(Reindex(Sr["st_debt"], yrs)) ELSE Scalar0,
               IF Len(Sr["lt_debt"]) > 0 THEN AsSeries(Reindex(Sr["lt_debt"], yrs)) ELSE Scalar0)
  IN  IF sum.scalar THEN sum ELSE AsSeries(MapSeries(sum.ser, ReplaceInf))

\* lines 267-272: ebitda
Ebitda(Sr, yrs) ==
  IF Len(Sr["ebitda"]) = 0
  THEN AddAligned(AsSeries(Reindex(Sr["ebit"], yrs)), AsSeries(Reindex(Sr["depr"], yrs))).ser
  ELSE Reindex(Sr["ebitda"], yrs)

\* the series built before the loop (lines 262-278)
Helpers(Sr, yrs) ==
  [ total_debt |-> TotalDebt(Sr, yrs).ser,
    ebitda |-> Ebitda(Sr, yrs),
    avg_assets |-> AvgSeries(Reindex(Sr["total_assets"], yrs)),
    avg_equity |-> AvgSeries(Reindex(Sr["equity"], yrs)),
    avg_ar |-> AvgSeries(Reindex(Sr["receivables"], yrs)),
    avg_inv |-> AvgSeries(Reindex(Sr["inventory"], yrs)) ]

\* the values the loop body reads for period y (lines 281-315)
Locals(Sr, yrs, H, y) ==
  LET val(key) == Get(Reindex(Sr[key], yrs), y)
  IN  [ revenue |-> val("revenue"), cogs |-> val("cogs"),
        gross_profit |-> val("gross_profit"), ebit |-> val("ebit"),
        interest_exp |-> val("interest_exp"), net_profit |-> val("net_profit"),
        ca |-> val("current_assets"), cash |-> val("cash"), ar |-> val("receivables"),
        inv |-> val("inventory"), cl |-> val("current_liab"),
        ta |-> val("total_assets"), tl |-> val("total_liab"), eq |-> val("equity"),
        sd |-> val("st_debt"), ld |-> val("lt_debt"),
        operating_income |-> val("operating_income"),
        td |-> Get(H.total_debt, y),
        ebt_da |-> Get(H.ebitda, y),
        A_assets |-> Get(H.avg_assets, y), A_equity |-> Get(H.avg_equity, y),
        A_ar |-> Get(H.avg_ar, y), A_inv |-> Get(H.avg_inv, y) ]

QuickRatio(L) ==
  LET qr1 == safe_div(IF IsFinite(L.ca) /\ IsFinite(L.inv) THEN FSub(L.ca, L.inv) ELSE NaN,
                      L.cl)
      qr2 == safe_div(FAdd(FirstNonNan(<<L.cash, Num(0)>>), FirstNonNan(<<L.ar, Num(0)>>)),
                      L.cl)
  IN  IF IsFinite(qr1) THEN qr1 ELSE qr2

NetDebt(L) ==
  LET net_debt == FirstNonNan(<<L.td, L.tl>>)
  IN  IF IsFinite(net_debt) /\ IsFinite(L.cash) THEN FSub(net_debt, L.cash) ELSE net_debt

InventoryTurnover(L) ==
  LET inv_to == safe_div(L.cogs, L.A_inv)
  IN  IF ~IsFinite(inv_to) THEN safe_div(L.revenue, L.A_inv) ELSE inv_to

\* the value the loop body appends to data[ind] (lines 317-385)
Indicator(ind, L) ==
  CASE ind = "Current Ratio" -> safe_div(L.ca, L.cl)
    [] ind = "Quick Ratio" -> QuickRatio(L)
    [] ind = "Working Capital to Total Assets" ->
         safe_div(FSub(FirstNonNan(<<L.ca, NaN>>), FirstNonNan(<<L.cl, NaN>>)), L.ta)
    [] ind = "Debt to Assets" -> safe_div(FirstNonNan(<<L.td, L.tl>>), L.ta)
    [] ind = "Debt to Equity" -> safe_div(FirstNonNan(<<L.td, L.tl>>), L.eq)
    [] ind = "Equity to Liabilities" -> safe_div(L.eq, L.tl)
    [] ind = "Long Term Debt to Assets" -> safe_div(L.ld, L.ta)
    [] ind = "Net Debt to Equity" -> safe_div(NetDebt(L), L.eq)
    [] ind = "Receivables Turnover" -> safe_div(L.revenue, L.A_ar)
    [] ind = "Inventory Turnover" -> InventoryTurnover(L)
    [] ind = "Asset Turnover" -> safe_div(L.revenue, L.A_assets)
    [] ind = "ROA" -> safe_div(L.net_profit, L.A_assets)
    [] ind = "ROE" -> safe_div(L.net_profit, L.A_equity)
    [] ind = "EBIT to Assets" -> safe_div(L.ebit, L.A_assets)
    [] ind = "Operating Income to Debt" ->
         safe_div(IF IsFinite(L.ebit) THEN L.ebit ELSE L.operating_income,
                  FirstNonNan(<<L.td, L.tl>>))
    [] ind = "Net Profit Margin" -> safe_div(L.net_profit, L.revenue)
    [] ind = "Gross Margin" -> safe_div(L.gross_profit, L.revenue)
    [] ind = "Interest Coverage" -> safe_div(L.ebit, L.interest_exp)
    [] ind = "EBITDA to Interest" -> safe_div(L.ebt_da, L.interest_exp)
    [] ind = "Total Debt to EBITDA" -> safe_div(FirstNonNan(<<L.td, L.tl>>), L.ebt_da)

\* the names the loop body appends to
LoopNames ==
  { "Current Ratio", "Quick Ratio", "Working Capital to Total Assets", "Debt to Assets",
    "Debt to Equity", "Equity to Liabilities", "Long Term Debt to Assets",
    "Net Debt to Equity", "Receivables Turnover", "Inventory Turnover", "Asset Turnover",
    "ROA", "ROE", "EBIT to Assets", "Operating Income to Debt", "Net Profit Margin",
    "Gross Margin", "Interest Coverage", "EBITDA to Interest", "Total Debt to EBITDA" }

NoSeries == SeriesByKey(Tup([k \in 1..Len(FetchKeys) |-> <<>>]))

Raised(exc) == [exc |-> exc, index |-> <<>>, columns |-> <<>>, cells |-> <<>>]

Table(index, columns, cells) ==
  [exc |-> "", index |-> index, columns |-> columns, cells |-> cells]

NoDataColumn == <<"N","o"," ","d","a","t","a">>

RECURSIVE Flatten(_)
Flatten(lists) == IF Len(lists) = 0 THEN <<>> ELSE lists[1] \o Flatten(Tail(lists))

\* years of line 256: the sorted union of the indexes of the non-empty series
UnionYears(Sr) ==
  LexSort(Unique(Flatten(Tup([k \in 1..Len(FetchKeys) |-> SeriesIndex(Sr[FetchKeys[k]])]))))

\* the values the loop body reads, one record per period
LocalsPerYear(Sr, yrs, H) == Tup([j \in 1..Len(yrs) |-> Locals(Sr, yrs, H, yrs[j])])

\* the values the loop appends for one period, in INDICATOR_ORDER
LoopColumn(L) ==
  Tup([r \in 1..Len(INDICATOR_ORDER) |-> ReplaceInf(Indicator(INDICATOR_ORDER[r], L))])

\* DataFrame(data, index=years).T
Transposed(cols, nrows) ==
  Tup([r \in 1..nrows |-> Tup([j \in 1..Len(cols) |-> cols[j][r]])])

\* the frame of line 387 after line 390: per indicator of INDICATOR_ORDER one
\* cell per period
IndicatorRows(locals) ==
  Transposed(Tup([j \in 1..Len(locals) |-> LoopColumn(locals[j])]), Len(INDICATOR_ORDER))

\* lines 286-392
LoopOver(Sr, yrs, locals) ==
  IF ~(LoopNames \subseteq Range(INDICATOR_ORDER))
  THEN [S |-> Sr, years |-> yrs, loc |-> <<>>, view |-> Raised("KeyError")]
  ELSE IF ~(Range(INDICATOR_ORDER) \subseteq LoopNames)
  THEN [S |-> Sr, years |-> yrs, loc |-> <<>>, view |-> Raised("ValueError")]
  ELSE [S |-> Sr, years |-> yrs, loc |-> locals,
        view |-> Table(INDICATOR_ORDER, yrs, IndicatorRows(locals))]

\* lines 262-392, years being sorted: int has no replace (line 265) when both
\* debt series are empty
Loop(Sr, yrs) ==
  IF TotalDebt(Sr, yrs).scalar
  THEN [S |-> Sr, years |-> yrs, loc |-> <<>>, view |-> Raised("AttributeError")]
  ELSE LoopOver(Sr, yrs, LocalsPerYear(Sr, yrs, Helpers(Sr, yrs)))

\* lines 257-260: the "No data" frame, or the years ordered by their int key
\* (int() raises ValueError on a label such as "2021-Q1")
WithYears(Sr, years0) ==
  IF Len(years0) = 0
  THEN [S |-> Sr, years |-> <<>>, loc |-> <<>>,
        view |-> Table(INDICATOR_ORDER, <<NoDataColumn>>,
                       Tup([r \in 1..Len(INDICATOR_ORDER) |-> <<NaN>>]))]
  ELSE IF \E j \in 1..Len(years0) : ~IntKey(years0[j]).ok
  THEN [S |-> Sr, years |-> <<>>, loc |-> <<>>, view |-> Raised("ValueError")]
  ELSE Loop(Sr, StableSort(years0, IntKeyLess))

FromSeries(Sr) == WithYears(Sr, UnionYears(Sr))

\* lines 249-253: the first fetch that raises ends the call
FromFetched(fetched) ==
  IF \E k \in 1..Len(fetched) : fetched[k].exc # ""
  THEN [S |-> NoSeries, years |-> <<>>, loc |-> <<>>,
        view |-> Raised(fetched[Min({k \in 1..Len(fetched) : fetched[k].exc # ""})].exc)]
  ELSE FromSeries(SeriesByKey(Tup([k \in 1..Len(fetched) |-> fetched[k].ser])))

FetchAll(frame, wide) ==
  Tup([k \in 1..Len(FetchKeys) |-> FetchFrom(frame, wide, FetchKeys[k])])

\* compute_indicators: [S, years, loc, view]
compute_indicators(df) == FromFetched(FetchAll(LongFrame(df, AnyStatement), WideBase(df)))

(***************************************************************************)
(* Period sorters                                                          *)
(***************************************************************************)
\* re.search(r"(19|20)\d{2}", s): the position of the first match, 0 if none
YearMatch(s) ==
  LET at == {i \in 1..(Len(s) - 3) :
               /\ \/ s[i] = "1" /\ s[i + 1] = "9"
                  \/ s[i] = "2" /\ s[i + 1] = "0"
               /\ IsDigit(s[i + 2]) /\ IsDigit(s[i + 3])}
  IN  IF at = {} THEN 0 ELSE Min(at)

\* utils/transforms.py sort_year_label: the key (year, forecast flag, label)
sort_year_label(label) ==
  LET s == Strip(label)
      m == YearMatch(s)
  IN  [year |-> IF m > 0 THEN DigitsValue(SubSeq(s, m, m + 3)) ELSE 9999,
       f |-> IF EndsWith(s, "F") \/ EndsWith(s, "f") THEN 1 ELSE 0,
       s |-> s]

\* Python's  a < b  on the key tuples
YearKeyLess(a, b) ==
  \/ a.year < b.year
  \/ a.year = b.year /\ a.f < b.f
  \/ a.year = b.year /\ a.f = b.f /\ LexLess(a.s, b.s)

SortYearLabelLess(a, b) == YearKeyLess(sort_year_label(a), sort_year_label(b))

\* sorted(labels, key=sort_year_label)
SortedByYearLabel(ls) == StableSort(ls, SortYearLabelLess)

\* ultis/transforms.py sort_year_labels._key: (all digits as one int, flag)
LabelsKey(s) ==
  LET base == SelectSeq(s, IsDigit)
  IN  [n |-> IF Len(base) > 0 THEN DigitsValue(base) ELSE 0,
       f |-> IF EndsWith(s, "F") \/ EndsWith(s, "f") THEN 1 ELSE 0]

LabelsKeyLess(a, b) ==
  LET ka == LabelsKey(a)
      kb == LabelsKey(b)
  IN  ka.n < kb.n \/ (ka.n = kb.n /\ ka.f < kb.f)

\* ultis/transforms.py sort_year_labels
sort_year_labels(ls) == StableSort(ls, LabelsKeyLess)

(***************************************************************************)
(* core/features.py                                                        *)
(***************************************************************************)
\* the keyword lists build_indicators receives in kw (lower-cased by the caller)
kw ==
  [ net_revenue |-> <<<<"r","e","v","e","n","u","e">>>>,
    cogs |-> <<<<"c","o","g","s">>, <<"c","o","s","t"," ","o","f"," ","g","o","o","d","s">>>>,
    ebit |-> <<<<"e","b","i","t">>>>,
    net_income |-> <<<<"n","e","t"," ","i","n","c","o","m","e">>, <<"n","e","t"," ","p","r","o","f","i","t">>>>,
    total_assets |-> <<<<"t","o","t","a","l"," ","a","s","s","e","t","s">>>>,
    total_equity |-> <<<<"e","q","u","i","t","y">>>>,
    total_liabilities |-> <<<<"l","i","a","b","i","l","i","t","i","e","s">>>>,
    ocf |-> <<<<"o","p","e","r","a","t","i","n","g"," ","c","a","s","h">>>> ]

\* df[df["statement"].str.contains(key, case=False, na=False)]: the row numbers
SelectStatement(df, key) ==
  LET stmt == Column(df, <<"s","t","a","t","e","m","e","n","t">>)
  IN  SelectSeq(Tup([r \in 1..Len(df.rows) |-> r]),
                LAMBDA r : stmt[r].k = "text" /\ Contains(Lower(key), Lower(stmt[r].t)))

\* _find_series over the rows  part  of df
\* line 5: the rows of  part  whose lower-cased account contains a keyword
AccountRows(account, part, keywords) ==
  SelectSeq(part, LAMBDA r : \E k \in 1..Len(keywords) :
                               Contains(keywords[k], Lower(Str(account[r]))))

\* line 6: groupby("period")["value"].sum().sort_index() over the rows keep
SumOfRows(period, value, keep) ==
  GroupSum(Tup([j \in 1..Len(keep) |-> Str(period[keep[j]])]), Pick(value, keep))

\* _find_series over the rows  part  of df
FindSeries(df, part, keywords) ==
  SumOfRows(Column(df, <<"p","e","r","i","o","d">>), Column(df, <<"v","a","l","u","e">>),
            AccountRows(Column(df, <<"a","c","c","o","u","n","t">>), part, keywords))

\* Series.replace(0, nan)
ReplaceZero(v) == IF IsZero(v) THEN NaN ELSE v

\* lines 14-21: the eight series
FoundSeries(df, income, balance, cashflow) ==
  [ Revenue |-> FindSeries(df, income, kw.net_revenue),
    COGS |-> FindSeries(df, income, kw.cogs),
    EBIT |-> FindSeries(df, income, kw.ebit),
    NetIncome |-> FindSeries(df, income, kw.net_income),
    TotalAssets |-> FindSeries(df, balance, kw.total_assets),
    TotalEquity |-> FindSeries(df, balance, kw.total_equity),
    TotalLiabilities |-> FindSeries(df, balance, kw.total_liabilities),
    OperatingCF |-> FindSeries(df, cashflow, kw.ocf) ]

\* the index of the frame of line 23: the sorted union of the series' indexes
PeriodIndex(f) ==
  LexSort(Unique(SeriesIndex(f.Revenue) \o SeriesIndex(f.COGS)
            \o SeriesIndex(f.EBIT) \o SeriesIndex(f.NetIncome)
            \o SeriesIndex(f.TotalAssets) \o SeriesIndex(f.TotalEquity)
            \o SeriesIndex(f.TotalLiabilities) \o SeriesIndex(f.OperatingCF)))

\* one row of the returned frame: the columns of lines 23-42
RatioRow(y, rev, cogs, ebit, ni, ta, te, tl, ocf) ==
  [ period |-> y,
    Revenue |-> rev, COGS |-> cogs, EBIT |-> ebit, NetIncome |-> ni,
    TotalAssets |-> ta, TotalEquity |-> te, TotalLiabilities |-> tl,
    OperatingCF |-> ocf,
    GrossProfit |-> FSub(rev, cogs),
    GrossMargin |-> FDiv(FSub(rev, cogs), ReplaceZero(rev)),
    EBITMargin |-> FDiv(ebit, ReplaceZero(rev)),
    NetMargin |-> FDiv(ni, ReplaceZero(rev)),
    ROA |-> FDiv(ni, ReplaceZero(ta)),
    ROE |-> FDiv(ni, ReplaceZero(te)),
    Leverage |-> FDiv(ta, ReplaceZero(te)),
    DebtToAssets |-> FDiv(tl, ReplaceZero(ta)),
    OCF_to_Debt |-> FDiv(ocf, ReplaceZero(tl)) ]

RatioRows(f, index) ==
  Tup([j \in 1..Len(index) |->
         RatioRow(index[j], Get(f.Revenue, index[j]), Get(f.COGS, index[j]),
                  Get(f.EBIT, index[j]), Get(f.NetIncome, index[j]),
                  Get(f.TotalAssets, index[j]), Get(f.TotalEquity, index[j]),
                  Get(f.TotalLiabilities, index[j]), Get(f.OperatingCF, index[j]))])

RatioTable(f) == [found |-> f, table |-> RatioRows(f, PeriodIndex(f))]

\* build_indicators: [found, table]; the table has one row per period of the
\* union of the series' indexes
build_indicators(df) ==
  RatioTable(FoundSeries(df, SelectStatement(df, <<"i","n","c","o","m","e">>),
                         SelectStatement(df, <<"b","a","l","a","n","c","e">>),
                         SelectStatement(df, <<"c","a","s","h">>)))

(***************************************************************************)
(* Inputs.  The tables and label lists a behaviour starts from.            *)
(***************************************************************************)
MaxPeriods == 2

MaxRows == 2

MaxLabels == 3

Amounts == {NaN, Num(0), Num(2), Num(0 - 2)}

Counts == {NaN, Num(0), Num(3)}

Earlier == {NaN, Num(2)}

\* the period labels of the value tables, in file order (latest first)
Periods == <<<<"2","0","2","3">>, <<"2","0","2","2">>, <<"2","0","2","1">>, <<"2","0","2","0">>>>

YearColumn == <<"Y","e","a","r">>

\* wide-form families: the metric columns of the file, the cells of the
\* latest period (vals) and of the earlier periods (prev)
WideFamilies ==
  << [cols |-> <<<<"C","u","r","r","e","n","t"," ","A","s","s","e","t","s">>, <<"I","n","v","e","n","t","o","r","y">>, <<"C","u","r","r","e","n","t"," ","L","i","a","b","i","l","i","t","i","e","s">>>>,
      vals |-> <<Counts, {NaN, Num(1), Text(<<"-">>)}, {NaN, Num(0), Num(2)}>>,
      prev |-> <<{Num(2)}, Earlier, Earlier>>],
     [cols |-> <<<<"C","a","s","h"," ","a","n","d"," ","c","a","s","h"," ","e","q","u","i","v","a","l","e","n","t","s">>, <<"A","c","c","o","u","n","t","s"," ","R","e","c","e","i","v","a","b","l","e">>, <<"C","u","r","r","e","n","t"," ","L","i","a","b","i","l","i","t","i","e","s">>>>,
      vals |-> <<Counts, Counts, {NaN, Num(0), Num(2)}>>,
      prev |-> <<Earlier, {Num(2)}, Earlier>>],
     [cols |-> <<<<"N","e","t"," ","P","r","o","f","i","t">>, <<"T","o","t","a","l"," ","A","s","s","e","t","s">>, <<"O","w","n","e","r","'","s"," ","E","q","u","i","t","y">>>>,
      vals |-> <<{NaN, Num(3)}, Amounts, Amounts>>,
      prev |-> <<{Num(3)}, Earlier, Earlier>>],
     [cols |-> <<<<"S","h","o","r","t","-","t","e","r","m"," ","l","o","a","n","s">>, <<"L","o","n","g","-","t","e","r","m"," ","l","o","a","n","s">>, <<"T","o","t","a","l"," ","L","i","a","b","i","l","i","t","i","e","s">>, <<"T","o","t","a","l"," ","A","s","s","e","t","s">>>>,
      vals |-> <<{NaN, Num(0), Num(1)}, {NaN, Num(1)}, {NaN, Num(0), Num(3)}, {Num(0), Num(2)}>>,
      prev |-> <<Earlier, {Num(2)}, {Num(3)}, {Num(2)}>>],
     [cols |-> <<<<"E","B","I","T">>, <<"D","e","p","r","e","c","i","a","t","i","o","n">>, <<"I","n","t","e","r","e","s","t"," ","E","x","p","e","n","s","e">>>>,
      vals |-> <<Counts, {NaN, Num(1)}, {NaN, Num(0), Num(2)}>>,
      prev |-> <<Earlier, {Num(2)}, Earlier>>],
     [cols |-> <<<<"E","B","I","T">>, <<"D","e","p","r","e","c","i","a","t","i","o","n">>, <<"I","n","t","e","r","e","s","t"," ","E","x","p","e","n","s","e">>, <<"E","B","I","T","D","A">>>>,
      vals |-> <<{Num(3)}, {NaN, Num(1)}, {NaN, Num(0), Num(2)}, {NaN, Num(5)}>>,
      prev |-> <<{Num(3)}, {Num(1)}, Earlier, Earlier>>],
     [cols |-> <<<<"N","e","t"," ","R","e","v","e","n","u","e">>, <<"I","n","v","e","n","t","o","r","y">>, <<"A","c","c","o","u","n","t","s"," ","R","e","c","e","i","v","a","b","l","e">>>>,
      vals |-> <<Counts, Amounts, {NaN, Num(2)}>>,
      prev |-> <<{Num(3)}, Earlier, Earlier>>],
     [cols |-> <<<<"N","e","t"," ","R","e","v","e","n","u","e">>, <<"C","O","G","S">>>>,
      vals |-> <<{Num(1200)}, {NaN, Num(700)}>>,
      prev |-> <<{Num(1000)}, {NaN, Num(600)}>>],
     [cols |-> <<<<"N","e","t"," ","R","e","v","e","n","u","e">>, <<"C","O","G","S">>, <<"G","r","o","s","s"," ","P","r","o","f","i","t">>>>,
      vals |-> <<{Num(0), Num(1200)}, {NaN, Num(700)}, {NaN, Num(500)}>>,
      prev |-> <<{Num(1000)}, {NaN, Num(600)}, {NaN, Num(400)}>>],
     [cols |-> <<<<"M","e","m","o">>, <<"C","u","r","r","e","n","t"," ","L","i","a","b","i","l","i","t","i","e","s">>>>,
      vals |-> <<Counts, {NaN, Num(0), Num(2)}>>,
      prev |-> <<Earlier, {Num(2)}>>],
     [cols |-> <<<<"L","o","n","g","-","t","e","r","m"," ","l","o","a","n","s">>, <<"T","o","t","a","l"," ","L","i","a","b","i","l","i","t","i","e","s">>, <<"T","o","t","a","l"," ","A","s","s","e","t","s">>>>,
      vals |-> <<{Num(1)}, {NaN, Num(3)}, {Num(2)}>>,
      prev |-> <<{Num(2)}, {Num(3)}, {Num(2)}>>] >>

\* the rows  <<v1, ..., vc>>  with vi drawn from vals[i]
RECURSIVE CellRows(_, _)
CellRows(vals, c) ==
  IF c = 0 THEN {<<>>}
  ELSE {Append(r, v) : r \in CellRows(vals, c - 1), v \in vals[c]}

\* the row lists of a family over the first n period labels
RECURSIVE WideRows(_, _)
WideRows(fam, n) ==
  IF n = 0 THEN {<<>>}
  ELSE {Append(t, <<Text(Periods[n])>> \o r) :
          t \in WideRows(fam, n - 1),
          r \in CellRows(IF n = 1 THEN fam.vals ELSE fam.prev, Len(fam.cols))}

WideTables(fam, n) ==
  {[columns |-> <<YearColumn>> \o fam.cols, rows |-> rows] : rows \in WideRows(fam, n)}

ValueTables ==
  UNION {WideTables(WideFamilies[f], n) : f \in 1..Len(WideFamilies), n \in 1..MaxPeriods}

\* the period labels the sorters and the label tables are given
LabelPool ==
  {<<"2","0","2","0">>, <<"2","0","2","0","F">>, <<"2","0","2","1">>, <<"2","0","2","1","F">>, <<"2","0","2","2","F">>, <<"T","T","M">>, <<"2","0","2","0","a">>, <<"2","0","2","1","-","Q","1">>}

\* the lists of at most n elements of a set
RECURSIVE Lists(_, _)
Lists(pool, n) ==
  IF n = 0 THEN {<<>>}
  ELSE LET shorter == Lists(pool, n - 1)
       IN  shorter \cup {Append(l, x) : l \in {s \in shorter : Len(s) = n - 1}, x \in pool}

SpecExample == <<<<"2","0","2","2","F">>, <<"2","0","2","0">>, <<"2","0","2","1">>, <<"2","0","2","1","F">>, <<"2","0","2","0","F">>>>

LabelLists ==
  {l \in Lists(LabelPool, MaxLabels) : Len(l) > 0 /\ \A i, j \in 1..Len(l) : i # j => l[i] # l[j]} \cup {SpecExample}

\* labels of one concept written with and without diacritics, capitals and
\* punctuation, and the alias keys they are resolved against
AliasLabelPool ==
  {<<"T","u1ED5","n","g"," ","t","u00E0","i"," ","s","u1EA3","n">>, <<"t","o","n","g"," ","t","a","i"," ","s","a","n">>, <<"T","O","T","A","L"," ","A","S","S","E","T","S">>, <<"T","o","t","a","l","-","A","s","s","e","t","s">>,
   <<"L","u1EE3","i"," ","n","h","u","u1EAD","n"," ","s","a","u"," ","t","h","u","u1EBF">>, <<"l","o","i"," ","n","h","u","a","n"," ","s","a","u"," ","t","h","u","e">>, <<"T","u00E0","i"," ","s","u1EA3","n"," ","n","g","u1EAF","n"," ","h","u1EA1","n">>,
   <<"t","a","i"," ","s","a","n"," ","n","g","a","n"," ","h","a","n">>}

AliasLabelLists == {<<a, b>> : a, b \in AliasLabelPool}

AliasKeyInputs == {"total_assets", "net_profit", "current_assets"}

\* labels that are an alias of one concept and hold an alias of another
ExactLabelPool == {<<"E","B","I","T","D","A">>, <<"E","B","I","T">>, <<"C","u","r","r","e","n","t"," ","L","i","a","b","i","l","i","t","i","e","s">>, <<"T","o","t","a","l"," ","L","i","a","b","i","l","i","t","i","e","s">>}

ExactLabelLists == {<<a, b>> : a, b \in ExactLabelPool}

ExactKeyInputs == {"ebit", "ebitda", "current_liab", "total_liab"}

\* wide tables with one metric column and the given period labels as rows
LabelTables ==
  {[columns |-> <<YearColumn, <<"N","e","t"," ","R","e","v","e","n","u","e">>>>,
    rows |-> Tup([i \in 1..Len(l) |-> <<Text(l[i]), Num(i)>>])] :
     l \in {m \in LabelLists : Len(m) <= MaxPeriods}}

\* long-form tables: at most MaxRows records
LongColumns == <<<<"S","t","a","t","e","m","e","n","t">>, <<"L","i","n","e","I","t","e","m">>, <<"Y","e","a","r">>, <<"V","a","l","u","e">>>>

LongRecords ==
  {<<Text(<<"B","a","l","a","n","c","e"," ","S","h","e","e","t">>), Text(i), Text(y), v>> :
     i \in {<<"C","u","r","r","e","n","t"," ","A","s","s","e","t","s">>, <<"C","u","r","r","e","n","t"," ","L","i","a","b","i","l","i","t","i","e","s">>},
     y \in {<<"2","0","2","2">>, <<"2","0","2","3">>},
     v \in {NaN, Num(3)}}
  \cup {<<Text(<<"N","o","t","e","s">>), Text(<<"C","u","r","r","e","n","t"," ","A","s","s","e","t","s">>), Text(<<"2","0","2","2">>), Num(3)>>}

LongTables ==
  {[columns |-> LongColumns, rows |-> rows] : rows \in Lists(LongRecords, MaxRows)}

\* tables without rows
EmptyTables ==
  {[columns |-> <<<<"d","i","s","p","l","a","y","_","y","e","a","r">>, <<"N","e","t"," ","R","e","v","e","n","u","e">>>>, rows |-> <<>>],
   [columns |-> <<YearColumn, <<"N","e","t"," ","R","e","v","e","n","u","e">>>>, rows |-> <<>>]}

\* cells as they are read from a file: European and plain number formats and
\* the placeholders of an empty cell
LocaleCells ==
  {Text(<<"1","0",".","2","7","7",",","1","9">>), Text(<<"1","2","3","4",".","5">>), Text(<<>>), Text(<<"-">>), Text(<<"n","a","n">>), Text(<<"N","o","n","e">>)}

\* a wide and a long table with one such cell
LocaleTables ==
  {[columns |-> <<YearColumn, <<"N","e","t"," ","R","e","v","e","n","u","e">>>>, rows |-> <<<<Text(<<"2","0","2","3">>), c>>>>] :
     c \in LocaleCells}
  \cup {[columns |-> LongColumns,
         rows |-> <<<<Text(<<"I","n","c","o","m","e"," ","S","t","a","t","e","m","e","n","t">>), Text(<<"N","e","t"," ","R","e","v","e","n","u","e">>), Text(<<"2","0","2","3">>), c>>>>] :
          c \in LocaleCells}

\* the tables and alias keys fetch_metric_series is called with
\* a table without a year column
NoYearTables ==
  {[columns |-> <<<<"T","i","c","k","e","r">>, <<"N","e","t"," ","R","e","v","e","n","u","e">>>>, rows |-> <<<<Text(<<"A","A","A">>), Num(5)>>>>]}

FetchInputs ==
  LongTables \cup WideTables(WideFamilies[6], 1) \cup LocaleTables \cup EmptyTables
    \cup NoYearTables

FetchKeyInputs == {"current_assets", "ebit", "revenue"}

ComputeInputs == ValueTables \cup LabelTables \cup LongTables \cup EmptyTables

\* fin_long tables of build_indicators: statement, account, period, value
BuildColumns == <<<<"s","t","a","t","e","m","e","n","t">>, <<"a","c","c","o","u","n","t">>, <<"p","e","r","i","o","d">>, <<"v","a","l","u","e">>>>

IncomeRow(account, period, v) ==
  <<Text(<<"I","n","c","o","m","e"," ","S","t","a","t","e","m","e","n","t">>), Text(account), Text(period), v>>

BalanceRow(account, period, v) ==
  <<Text(<<"B","a","l","a","n","c","e"," ","S","h","e","e","t">>), Text(account), Text(period), v>>

\* optional records: a record is left out (<<>>) or present with a value
Optional(rows) == {<<>>} \cup {<<r>> : r \in rows}

BuildInputs ==
  {[columns |-> BuildColumns,
    rows |-> <<IncomeRow(<<"N","e","t"," ","R","e","v","e","n","u","e">>, <<"2","0","2","2">>, Num(1000)), IncomeRow(<<"N","e","t"," ","R","e","v","e","n","u","e">>, <<"2","0","2","3">>, r23)>>
             \o c22 \o c23 \o ta] :
     r23 \in {Num(1200), Num(0)},
     c22 \in Optional({IncomeRow(<<"C","O","G","S">>, <<"2","0","2","2">>, v) : v \in {Num(600), NaN}}),
     c23 \in Optional({IncomeRow(<<"C","O","G","S">>, <<"2","0","2","3">>, v) : v \in {Num(700), NaN}}),
     ta \in Optional({BalanceRow(<<"T","o","t","a","l"," ","A","s","s","e","t","s">>, <<"2","0","2","3">>, v) : v \in {Num(0), Num(5), NaN}})}

(***************************************************************************)
(* File readers.  A file is [exists, lines]: its bytes are the lines       *)
(* joined by "\n" (7-bit text, so every encoding decodes them alike).      *)
(* A reader returns [exc, msg, df, info, steps]: steps lists what was done *)
(* with the bytes (signature test, decoding, sniffing, parsing).           *)
(***************************************************************************)
NoTable == [columns |-> <<>>, rows |-> <<>>]

\* Python's  s.split(sep)
RECURSIVE Split(_, _)
Split(s, sep) ==
  LET at == IndexOf(s, sep, 1)
  IN  IF at = 0 THEN <<s>>
      ELSE <<SubSeq(s, 1, at - 1)>> \o Split(SubSeq(s, at + 1, Len(s)), sep)

\* Python's  s.count(c)
Count(s, c) == Len(SelectSeq(s, LAMBDA x : x = c))

\* texts pandas reads as a missing value
NaTexts == {<<>>, <<"n","a","n">>, <<"N","a","N">>, <<"N","A">>, <<"N","/","A">>, <<"N","U","L","L">>, <<"n","u","l","l">>}

\* the header names of a parsed file: an empty name becomes "Unnamed: i"
HeaderNames(fields) ==
  Tup([i \in 1..Len(fields) |->
         IF fields[i] = <<>> THEN <<"U","n","n","a","m","e","d",":"," ">> \o NatStr(i - 1) ELSE fields[i]])

\* the cell of field f in a column whose fields are col: a missing value is
\* NaN, a column of numbers holds numbers and any other column holds text
InferCell(f, col) ==
  IF f \in NaTexts THEN NaN
  ELSE IF \A x \in Range(col) : x \in NaTexts \/ IsFinite(ParseFloat(x))
       THEN ParseFloat(f) ELSE Text(f)

\* the field of column c in a record (a short record is padded)
Field(rec, c) == IF c <= Len(rec) THEN rec[c] ELSE <<>>

Parsed(df) == [exc |-> "", df |-> df]

NotParsed(exc) == [exc |-> exc, df |-> NoTable]

\* the frame of a header and records of at most as many fields
FrameOf(header, recs) ==
  [columns |-> HeaderNames(header),
   rows |-> Tup([r \in 1..Len(recs) |->
              Tup([c \in 1..Len(header) |->
                     InferCell(Field(recs[r], c),
                               Tup([q \in 1..Len(recs) |-> Field(recs[q], c)]))])])]

\* pd.read_csv(text, sep=sep) on unquoted text: blank lines are skipped, the
\* first line is the header, a record with too many fields is an error or,
\* with on_bad_lines="skip", left out
ReadCsvBody(body, sep, skip_bad) ==
  IF Len(body) = 0 THEN NotParsed("EmptyDataError")
  ELSE IF \E r \in 2..Len(body) : ~skip_bad /\ Len(Split(body[r], sep)) > Len(Split(body[1], sep))
       THEN NotParsed("ParserError")
       ELSE Parsed(FrameOf(Split(body[1], sep),
                           SelectSeq(Tup([r \in 1..(Len(body) - 1) |-> Split(body[r + 1], sep)]),
                                     LAMBDA rec : Len(rec) <= Len(Split(body[1], sep)))))

ReadCsv(lines, sep, skip_bad) ==
  ReadCsvBody(SelectSeq(lines, LAMBDA ln : ln # <<>>), sep, skip_bad)

\* csv.Sniffer().sniff(line).delimiter on one unquoted line: every character
\* of the line is consistent, so a preferred delimiter in the line wins and
\* otherwise the most frequent character, the greatest one on a tie
Preferred == <<",", "\t", ";", " ", ":">>

SniffAmong(line, chars) ==
  IF chars = {} THEN ""
  ELSE IF \E i \in 1..Len(Preferred) : Preferred[i] \in chars /\ Cardinality(chars) > 1
       THEN Preferred[Min({i \in 1..Len(Preferred) : Preferred[i] \in chars})]
       ELSE CHOOSE c \in chars :
              \A d \in chars : \/ Count(line, d) < Count(line, c)
                               \/ Count(line, d) = Count(line, c) /\ Ord(d) <= Ord(c)

Sniff(line) == SniffAmong(line, {c \in Range(line) : IndexOf(NonAscii, c, 1) = 0})

\* pd.read_csv(path, engine="python", sep=None): the delimiter is sniffed
\* from the first line that is not blank
ReadCsvSniffedBody(body, skip_bad) ==
  IF Len(body) = 0 THEN NotParsed("EmptyDataError")
  ELSE IF Sniff(body[1]) = "" THEN NotParsed("Error")
       ELSE ReadCsvBody(body, Sniff(body[1]), skip_bad)

ReadCsvSniffed(lines, skip_bad) ==
  ReadCsvSniffedBody(SelectSeq(lines, LAMBDA ln : ln # <<>>), skip_bad)

\* _is_xlsx_bytes, _looks_like_xlsx: the bytes start with the zip signature
IsXlsx(lines) ==
  Len(lines) > 0 /\ Len(lines[1]) >= 2 /\ lines[1][1] = "P" /\ lines[1][2] = "K"

Loaded(df, info, steps) == [exc |-> "", msg |-> "", df |-> df, info |-> info, steps |-> steps]

Failed(exc, msg, steps) ==
  [exc |-> exc, msg |-> msg, df |-> NoTable, info |-> <<>>, steps |-> steps]

NoResult == Failed("none", "", <<>>)

\* the step list of n attempts, one per encoding
RECURSIVE Repeat(_, _)
Repeat(steps, n) == IF n = 0 THEN <<>> ELSE steps \o Repeat(steps, n - 1)

\* ---- utils/io.py ----
\* _try_read_csv: the first encoding under which pd.read_csv gives a frame
\* with columns; None when the file is missing or no encoding does
TryReadCsvOf(read) ==
  IF read.exc = "" /\ Len(read.df.columns) > 0
  THEN Loaded(read.df, <<>>, <<"exists", "decode", "parse">>)
  ELSE Failed("None", "", <<"exists">> \o Repeat(<<"decode", "parse">>, 3))

TryReadCsv(file) ==
  IF ~file.exists THEN Failed("None", "", <<"exists">>)
  ELSE TryReadCsvOf(ReadCsv(file.lines, ",", FALSE))

\* read_csv_smart: the file is looked for under the repository root, under
\* data/ and by name; the first frame read is returned
ReadCsvSmartOf(first) ==
  IF first.exc = "" THEN first
  ELSE Failed("FileNotFoundError", "notfound", Repeat(first.steps, 3))

read_csv_smart(file) == ReadCsvSmartOf(TryReadCsv(file))

\* ---- ui/layout.py ----
\* the delimiter counts of the second pass and the delimiter chosen
Delimiters == <<",", ";", "\t", "|">>

RECURSIVE Sum(_)
Sum(ns) == IF Len(ns) = 0 THEN 0 ELSE ns[1] + Sum(Tail(ns))

DelimiterCount(lines, d) == Sum(Tup([i \in 1..Len(lines) |-> Count(lines[i], d)]))

BestSep(lines) ==
  Delimiters[Min({i \in 1..Len(Delimiters) :
                    \A j \in 1..Len(Delimiters) :
                      DelimiterCount(lines, Delimiters[j]) <= DelimiterCount(lines, Delimiters[i])})]

\* steps 2 and 3 of _read_csv_robust_any: count the delimiters of the first
\* 50 lines that are not blank, parse with the most frequent one
ReadCounted(lines, steps) ==
  IF Len(lines) = 0 THEN Failed("ValueError", "unreadable", steps \o <<"decode">>)
  ELSE IF Len(SelectSeq(lines, LAMBDA ln : Strip(ln) # <<>>)) = 0
       THEN Failed("ValueError", "blank", steps \o <<"decode">>)
  ELSE IF DelimiterCount(SelectSeq(lines, LAMBDA ln : Strip(ln) # <<>>),
                         BestSep(SelectSeq(lines, LAMBDA ln : Strip(ln) # <<>>))) = 0
       THEN Failed("ValueError", "nodelimiter", steps \o <<"decode", "count">>)
  ELSE IF ReadCsv(lines, BestSep(SelectSeq(lines, LAMBDA ln : Strip(ln) # <<>>)), FALSE).exc = ""
       THEN Loaded(ReadCsv(lines, BestSep(SelectSeq(lines, LAMBDA ln : Strip(ln) # <<>>)), FALSE).df,
                   <<>>, steps \o <<"decode", "count", "parse">>)
       ELSE Failed("ValueError", "cannotparse",
                   steps \o <<"decode", "count">> \o Repeat(<<"parse">>, 4))

\* step 1 of _read_csv_robust_any: pandas with a sniffed delimiter
ReadSniffedFirst(lines, sniffed) ==
  IF sniffed.exc = "" /\ Len(sniffed.df.columns) > 0
  THEN Loaded(sniffed.df, <<>>, <<"exists", "signature", "decode", "sniff", "parse">>)
  ELSE ReadCounted(lines, <<"exists", "signature">> \o Repeat(<<"decode", "sniff", "parse">>, 4))

ReadCsvRobustAny(file) ==
  IF ~file.exists THEN Failed("FileNotFoundError", "notfound", <<"exists">>)
  ELSE IF IsXlsx(file.lines) THEN Failed("ValueError", "xlsx", <<"exists", "signature">>)
  ELSE ReadSniffedFirst(file.lines, ReadCsvSniffed(file.lines, FALSE))

\* ---- core/data_access.py ----
\* is_header_like: at least three cells and a letter in them
IsAlpha(c) == LowerChar(c) \in DOMAIN LowerMap \/ c \in DOMAIN LowerMap \/ IndexOf(NonAscii, c, 1) > 0

Cells(ln, sep) == Tup([i \in 1..Len(Split(ln, sep)) |-> Strip(Split(ln, sep)[i])])

RECURSIVE Join(_, _)
Join(strs, by) ==
  IF Len(strs) = 0 THEN <<>>
  ELSE IF Len(strs) = 1 THEN strs[1]
  ELSE strs[1] \o by \o Join(Tail(strs), by)

IsHeaderLike(cells) ==
  Len(cells) >= 3 /\ \E c \in Range(Lower(Join(cells, <<" ">>))) : IsAlpha(c)

HeaderSeps == <<",", ";", "\t">>

Keyed(cells) ==
  \E k \in {<<"t","i","c","k","e","r">>, <<"m","u00E3">>, <<"m","a"," ">>, <<"s","y","m","b","o","l">>} : Contains(k, Lower(Join(cells, <<" ">>)))

\* the (line, separator) pairs in the order the two loops visit them
Visits(lines) ==
  Flatten(Tup([i \in 1..Len(lines) |-> Tup([s \in 1..Len(HeaderSeps) |-> [idx |-> i - 1, sep |-> HeaderSeps[s]]])]))

\* pass 2: the first visit with the greatest number of fields
WidestVisit(lines, visits) ==
  visits[Min({v \in 1..Len(visits) :
                \A w \in 1..Len(visits) :
                  Len(Split(lines[visits[w].idx + 1], visits[w].sep))
                    <= Len(Split(lines[visits[v].idx + 1], visits[v].sep))})]

GuessAmong(lines, visits, keyed) ==
  IF keyed # {} THEN visits[Min(keyed)]
  ELSE IF Len(visits) > 0
          /\ Len(Split(lines[WidestVisit(lines, visits).idx + 1], WidestVisit(lines, visits).sep)) >= 3
       THEN WidestVisit(lines, visits)
       ELSE [idx |-> 0, sep |-> ","]

\* _guess_header_and_sep(lines)
GuessHeaderAndSep(lines) ==
  GuessAmong(lines, Visits(lines),
             {v \in 1..Len(Visits(lines)) :
                /\ IsHeaderLike(Cells(lines[Visits(lines)[v].idx + 1], Visits(lines)[v].sep))
                /\ Keyed(Cells(lines[Visits(lines)[v].idx + 1], Visits(lines)[v].sep))})

\* _csv_manual_parse(text, sep)
CsvManualParse(rows, sep) ==
  IF Len(rows) = 0 \/ Len(Split(rows[1], sep)) < 2 THEN NotParsed("EmptyDataError")
  ELSE IF \E r \in 2..Len(rows) : Len(Split(rows[r], sep)) > Len(Split(rows[1], sep))
       THEN NotParsed("ValueError")
       ELSE Parsed([columns |-> Cells(rows[1], sep),
                    rows |-> Tup([r \in 1..(Len(rows) - 1) |->
                               Tup([c \in 1..Len(Split(rows[1], sep)) |->
                                      Text(Strip(Field(Split(rows[r + 1], sep), c)))])])])

\* while lines and not lines[0].strip(): lines.pop(0)
RECURSIVE DropLeadingBlank(_)
DropLeadingBlank(lines) ==
  IF Len(lines) > 0 /\ Strip(lines[1]) = <<>> THEN DropLeadingBlank(Tail(lines)) ELSE lines

\* the other separators and the sniffer, tried when the guessed separator
\* gives one column
MoreThanOneColumn(read) == read.exc = "" /\ Len(read.df.columns) > 1

RetrySeparators(cleaned, skiprows, steps) ==
  IF \E s \in 1..Len(HeaderSeps) : MoreThanOneColumn(ReadCsv(cleaned, HeaderSeps[s], TRUE))
  THEN Loaded(ReadCsv(cleaned,
                      HeaderSeps[Min({s \in 1..Len(HeaderSeps) :
                                        MoreThanOneColumn(ReadCsv(cleaned, HeaderSeps[s], TRUE))})],
                      TRUE).df,
              <<<<HeaderSeps[Min({s \in 1..Len(HeaderSeps) :
                                   MoreThanOneColumn(ReadCsv(cleaned, HeaderSeps[s], TRUE))})]>>,
                NatStr(skiprows)>>,
              steps \o <<"parse">>)
  ELSE IF MoreThanOneColumn(ReadCsvSniffed(cleaned, TRUE))
       THEN Loaded(ReadCsvSniffed(cleaned, TRUE).df, <<<<"i","n","f","e","r">>, NatStr(skiprows)>>,
                   steps \o <<"parse", "sniff", "parse">>)
       ELSE Failed("ValueError", "cannotparse",
                   <<"read", "signature">> \o Repeat(<<"decode", "guess", "parse", "parse", "sniff", "parse">>, 7))

ReadGuessed(cleaned, guess, read, steps) ==
  IF read.exc # ""
  THEN IF CsvManualParse(SelectSeq(cleaned, LAMBDA ln : Strip(ln) # <<>>), guess.sep).exc = ""
       THEN Loaded(CsvManualParse(SelectSeq(cleaned, LAMBDA ln : Strip(ln) # <<>>), guess.sep).df,
                   <<<<guess.sep>>, NatStr(guess.idx), <<"m","a","n","u","a","l">>>>, steps \o <<"manual">>)
       ELSE Failed("ValueError", "cannotparse",
                   <<"read", "signature">> \o Repeat(<<"decode", "guess", "parse", "manual">>, 7))
  ELSE IF Len(read.df.columns) <= 1 THEN RetrySeparators(cleaned, guess.idx, steps)
  ELSE Loaded(read.df, <<<<guess.sep>>, NatStr(guess.idx)>>, steps)

ReadVisible(lines, guess) ==
  ReadGuessed(SubSeq(lines, guess.idx + 1, Len(lines)), guess,
              ReadCsv(SubSeq(lines, guess.idx + 1, Len(lines)), guess.sep, TRUE),
              <<"read", "signature", "decode", "guess", "parse">>)

\* _read_csv_robust(path)
ReadCsvRobust(file) ==
  IF ~file.exists THEN Failed("FileNotFoundError", "notfound", <<>>)
  ELSE IF file.lines = <<>> THEN Failed("EmptyDataError", "empty", <<"read">>)
  ELSE IF IsXlsx(file.lines) THEN Failed("ValueError", "xlsx", <<"read", "signature">>)
  ELSE IF DropLeadingBlank(file.lines) = <<>>
       THEN Failed("ValueError", "cannotparse", <<"read", "signature">> \o Repeat(<<"decode">>, 7))
       ELSE ReadVisible(DropLeadingBlank(file.lines), GuessHeaderAndSep(DropLeadingBlank(file.lines)))

\* ---- ui/layout.py: load_financial_csv, list_tickers ----
StripNames(df) ==
  [columns |-> Tup([c \in 1..Len(df.columns) |-> Strip(df.columns[c])]), rows |-> df.rows]

\* _find_col(df, candidates): the first candidate that is a column, as
\* written or in lower case (of two columns alike in lower case, the last)
FindColOf(df, cand) ==
  IF HasColumn(df, cand) THEN Some(cand)
  ELSE Some(df.columns[CHOOSE c \in 1..Len(df.columns) :
              /\ Lower(df.columns[c]) = Lower(cand)
              /\ \A d \in (c + 1)..Len(df.columns) : Lower(df.columns[d]) # Lower(cand)])

FindCol(df, candidates) ==
  LET found_at == {i \in 1..Len(candidates) :
                     \E c \in 1..Len(df.columns) : Lower(df.columns[c]) = Lower(candidates[i])}
  IN  IF found_at = {} THEN None
      ELSE FindColOf(df, candidates[Min(found_at)])

\* df[name] = cells  (a new column is appended)
Assign(df, name, cells) ==
  IF HasColumn(df, name)
  THEN [columns |-> df.columns,
        rows |-> Tup([r \in 1..Len(df.rows) |->
                   Tup([c \in 1..Len(df.columns) |->
                          IF c = ColIndex(df, name) THEN cells[r] ELSE df.rows[r][c]])])]
  ELSE [columns |-> Append(df.columns, name),
        rows |-> Tup([r \in 1..Len(df.rows) |-> Append(df.rows[r], cells[r])])]

\* the table with a display_year column written on it: the row positions as
\* text (tmp["display_year"] = tmp.index.astype(str))
WithIndexYear(df) ==
  Assign(df, <<"d","i","s","p","l","a","y","_","y","e","a","r">>, Tup([r \in 1..Len(df.rows) |-> Text(NatStr(r - 1))]))

\* the caller's table after compute_indicators: every write of the call goes
\* to a copy (df = fin_df[[...]].copy() at line 153, tmp = fin_df.copy() at
\* line 193; drop_duplicates, set_index and sort_index return new tables)
CallersTable(df) == df

\* df.rename(columns={old: new})
Rename(df, old, new) ==
  [columns |-> Tup([c \in 1..Len(df.columns) |-> IF df.columns[c] = old THEN new ELSE df.columns[c]]),
   rows |-> df.rows]

\* s.astype(str).str.upper().str.strip()
UpperChar(c) ==
  IF \E u \in DOMAIN LowerMap : LowerMap[u] = c
  THEN CHOOSE u \in DOMAIN LowerMap : LowerMap[u] = c ELSE c

Upper(s) == Tup([i \in 1..Len(s) |-> UpperChar(s[i])])

UpperStripped(cells) == Tup([r \in 1..Len(cells) |-> Text(Strip(Upper(Str(cells[r]))))])

Take(s, n) == SubSeq(s, 1, IF Len(s) < n THEN Len(s) ELSE n)

\* the Year column: the year column found, else the first four characters
\* of the period column, read as numbers
WithYear(df, year_col, per_col) ==
  IF year_col.some THEN Rename(df, year_col.name, YearColumn)
  ELSE Assign(df, YearColumn,
              Tup([r \in 1..Len(df.rows) |-> ParseFloat(Take(Str(Column(df, per_col.name)[r]), 4))]))

TickerColumn == <<"T","i","c","k","e","r">>

Typed(df) ==
  Assign(Assign(df, TickerColumn, UpperStripped(Column(df, TickerColumn))),
         YearColumn, Tup([r \in 1..Len(df.rows) |-> ToNumeric(Column(df, YearColumn)[r])]))

ValidRows(df) ==
  [columns |-> df.columns,
   rows |-> SelectSeq(df.rows, LAMBDA row : /\ row[ColIndex(df, TickerColumn)].t # <<>>
                                           /\ ~IsNaN(row[ColIndex(df, YearColumn)]))]

NormalisedOf(df, steps) ==
  IF Len(ValidRows(Typed(df)).rows) = 0 THEN Failed("ValueError", "norecords", steps)
  ELSE Loaded(ValidRows(Typed(df)), <<>>, steps)

Normalised(df, tick_col, year_col, per_col, steps) ==
  IF ~tick_col.some THEN Failed("ValueError", "noticker", steps)
  ELSE IF ~year_col.some /\ ~per_col.some THEN Failed("ValueError", "noyear", steps)
  ELSE NormalisedOf(Rename(WithYear(df, year_col, per_col), tick_col.name, TickerColumn), steps)

\* load_financial_csv(path) on what _read_csv_robust_any returned
LoadFinancialCsvOf(read) ==
  IF read.exc # "" THEN read
  ELSE Normalised(StripNames(read.df),
                  FindCol(StripNames(read.df), <<<<"T","i","c","k","e","r">>, <<"t","i","c","k","e","r">>, <<"M","a","C","K">>, <<"S","y","m","b","o","l">>, <<"C","o","d","e">>>>),
                  FindCol(StripNames(read.df), <<<<"Y","e","a","r">>, <<"y","e","a","r">>, <<"N","a","m">>, <<"N","u0103","m">>>>),
                  FindCol(StripNames(read.df), <<<<"P","e","r","i","o","d">>, <<"p","e","r","i","o","d">>, <<"K","u1EF3">>, <<"K","y">>>>),
                  read.steps)

\* list_tickers(path) on what load_financial_csv returned: the sorted
\* distinct tickers, in info
ListTickersOf(loaded) ==
  IF loaded.exc # "" THEN loaded
  ELSE Loaded(NoTable,
              StableSort(Unique(Tup([r \in 1..Len(loaded.df.rows) |->
                                       Upper(Str(Column(loaded.df, TickerColumn)[r]))])),
                         LexLess),
              loaded.steps)

\* ---- utils/transforms.py, ultis/transforms.py, app.py: display_year ----
DisplayYearColumn == <<"d","i","s","p","l","a","y","_","y","e","a","r">>

AsText(cells) == Tup([r \in 1..Len(cells) |-> Text(Str(cells[r]))])

FirstPresent(df, names) ==
  IF \E i \in 1..Len(names) : HasColumn(df, names[i])
  THEN Some(names[Min({i \in 1..Len(names) : HasColumn(df, names[i])})])
  ELSE None

\* utils/transforms.py build_display_year_column: the table it returns, which
\* is the caller's table itself, changed in place
BuildDisplayYearUtils(df) ==
  IF HasColumn(df, DisplayYearColumn)
  THEN Assign(df, DisplayYearColumn, AsText(Column(df, DisplayYearColumn)))
  ELSE IF FirstPresent(df, <<<<"Y","e","a","r">>, <<"y","e","a","r">>, <<"N","u0103","m">>, <<"p","e","r","i","o","d">>>>).some
       THEN Assign(df, DisplayYearColumn,
                   AsText(Column(df, FirstPresent(df, <<<<"Y","e","a","r">>, <<"y","e","a","r">>, <<"N","u0103","m">>, <<"p","e","r","i","o","d">>>>).name)))
       ELSE Assign(df, DisplayYearColumn, Tup([r \in 1..Len(df.rows) |-> Text(<<>>)]))

\* str.replace(r"\.0$", "", regex=True)
DropPointZero(s) ==
  IF Len(s) >= 2 /\ s[Len(s) - 1] = "." /\ s[Len(s)] = "0" THEN SubSeq(s, 1, Len(s) - 2) ELSE s

\* ultis/transforms.py build_display_year_column: works on a copy
BuildDisplayYearUltisOn(df, ycol) ==
  Assign(df, DisplayYearColumn,
         Tup([r \in 1..Len(df.rows) |-> Text(DropPointZero(Str(Column(df, ycol)[r])))]))

BuildDisplayYearUltis(df) ==
  IF HasColumn(df, DisplayYearColumn) THEN df
  ELSE IF FirstPresent(df, <<<<"Y","e","a","r">>, <<"y","e","a","r">>, <<"N","u0103","m">>, <<"n","a","m">>>>).some
       THEN BuildDisplayYearUltisOn(df, FirstPresent(df, <<<<"Y","e","a","r">>, <<"y","e","a","r">>, <<"N","u0103","m">>, <<"n","a","m">>>>).name)
       ELSE BuildDisplayYearUltisOn(Assign(df, YearColumn, Tup([r \in 1..Len(df.rows) |-> NaN])),
                                    YearColumn)

\* str.extract(r"(\d{4})")[0] on one text: the first run of four digits
FourDigits(s) ==
  IF \E i \in 1..(Len(s) - 3) : AllDigits(SubSeq(s, i, i + 3))
  THEN Text(SubSeq(s, Min({i \in 1..(Len(s) - 3) : AllDigits(SubSeq(s, i, i + 3))}),
                   Min({i \in 1..(Len(s) - 3) : AllDigits(SubSeq(s, i, i + 3))}) + 3))
  ELSE NaN

ExtractYear(cells) == Tup([r \in 1..Len(cells) |-> FourDigits(Str(cells[r]))])

\* app.py _fallback_build_display_year_column: works on a copy
FallbackBuildDisplayYear(df) ==
  IF FirstPresent(df, <<<<"Y","e","a","r">>, <<"y","e","a","r">>, <<"N","u0103","m">>, <<"n","a","m">>, <<"d","i","s","p","l","a","y","_","y","e","a","r">>, <<"y","e","a","r","_","l","a","b","e","l">>>>).some
  THEN Assign(df, DisplayYearColumn,
              ExtractYear(Column(df, FirstPresent(df, <<<<"Y","e","a","r">>, <<"y","e","a","r">>, <<"N","u0103","m">>, <<"n","a","m">>, <<"d","i","s","p","l","a","y","_","y","e","a","r">>, <<"y","e","a","r","_","l","a","b","e","l">>>>).name)))
  ELSE Assign(df, DisplayYearColumn, Tup([r \in 1..Len(df.rows) |-> Text(<<>>)]))

\* ---- app.py: load_data ----
EmptyShell ==
  [columns |-> <<<<"T","i","c","k","e","r">>, <<"d","i","s","p","l","a","y","_","y","e","a","r">>, <<"N","e","t"," ","R","e","v","e","n","u","e">>, <<"G","r","o","s","s"," ","P","r","o","f","i","t">>, <<"C","O","G","S">>, <<"R","O","E">>>>,
   rows |-> <<>>]

\* the Ticker column is the first of the known ticker columns, else SAMPLE
WithTicker(df) ==
  IF HasColumn(df, TickerColumn) THEN df
  ELSE IF FirstPresent(df, <<<<"t","i","c","k","e","r">>, <<"M","u00E3"," ","C","P">>, <<"M","a","C","P">>, <<"S","y","m","b","o","l">>>>).some
       THEN Rename(df, FirstPresent(df, <<<<"t","i","c","k","e","r">>, <<"M","u00E3"," ","C","P">>, <<"M","a","C","P">>, <<"S","y","m","b","o","l">>>>).name, TickerColumn)
       ELSE Assign(df, TickerColumn, Tup([r \in 1..Len(df.rows) |-> Text(<<"S","A","M","P","L","E">>)]))

ForceTypes(df) ==
  Assign(Assign(df, TickerColumn, UpperStripped(Column(df, TickerColumn))),
         DisplayYearColumn, ExtractYear(Column(df, DisplayYearColumn)))

\* load_data() on what read_csv_smart returned; when that raised, the file is
\* read again by pd.read_csv, which fails on it as read_csv_smart did, and
\* the empty shell is used
LoadDataOf(read) ==
  Loaded(ForceTypes(WithTicker(BuildDisplayYearUtils(IF read.exc = "" THEN read.df ELSE EmptyShell))),
         <<>>, read.steps)

\* ---- st.cache_data ----
Loaders == <<"_read_csv_robust_any", "load_financial_csv", "list_tickers", "load_data">>

NoCache == [f \in Range(Loaders) |-> NoResult]

\* the stored value of a memoized loader if there is one, else the value its
\* body gives
Cached(store, f, fresh) == IF store[f].exc = "none" THEN fresh ELSE store[f]

\* load_financial_csv(): the path is looked up first (_best_candidate_path)
LoadFinancialCsvBody(store, file) ==
  IF ~file.exists THEN Failed("FileNotFoundError", "notfound", <<"exists">>)
  ELSE LoadFinancialCsvOf(Cached(store, "_read_csv_robust_any", ReadCsvRobustAny(file)))

\* the body of a memoized loader, run on the file, with the cache as it is
\* when the body runs (load_financial_csv and list_tickers call a memoized
\* loader themselves)
Body(store, file, f) ==
  CASE f = "_read_csv_robust_any" -> ReadCsvRobustAny(file)
    [] f = "load_financial_csv" -> LoadFinancialCsvBody(store, file)
    [] f = "list_tickers" ->
         ListTickersOf(Cached(store, "load_financial_csv", LoadFinancialCsvBody(store, file)))
    [] OTHER -> LoadDataOf(read_csv_smart(file))

\* a call of a memoized loader: the stored value if there is one, else the
\* value of the body
Call(store, file, f) == Cached(store, f, Body(store, file, f))

\* the loaders whose body runs in a call of f
Runs(store, f) ==
  {g \in Range(Loaders) :
     /\ store[f].exc = "none"
     /\ store[g].exc = "none"
     /\ \/ g = f
        \/ g = "load_financial_csv" /\ f = "list_tickers"
        \/ /\ g = "_read_csv_robust_any"
           /\ \/ f = "load_financial_csv"
              \/ f = "list_tickers" /\ store["load_financial_csv"].exc = "none"}

\* the cache after the call: a value that was returned without an exception
\* is stored
Stored(store, file, f) ==
  [g \in Range(Loaders) |->
     IF g \in Runs(store, f) /\ Body(store, file, g).exc = "" THEN Body(store, file, g)
     ELSE store[g]]

\* ---- pivot tables: core/transforms.py, utils/transforms.py, ultis/transforms.py ----
EmptyFrame == Table(<<>>, <<>>, <<>>)

\* one cell of pivot_table(aggfunc="sum"): the sum of the values recorded for
\* the line item and the period (a sum skips NaN, so the sum of NaN values is
\* 0.0), NaN where nothing is recorded
PivotCell(items, yrs, vals, item, y) ==
  IF \E r \in 1..Len(items) : items[r] = item /\ yrs[r] = y
  THEN SumSkipNa(Pick(vals, SelectSeq(Tup([r \in 1..Len(items) |-> r]),
                                      LAMBDA r : items[r] = item /\ yrs[r] = y)))
  ELSE NaN

PivotOf(items, yrs, vals, index, columns) ==
  Table(index, columns,
        Tup([a \in 1..Len(index) |->
               Tup([b \in 1..Len(columns) |-> PivotCell(items, yrs, vals, index[a], columns[b])])]))

\* df.pivot_table(index=lcol, columns=ycol, values=vcol, aggfunc="sum") on a
\* numeric value column: index and columns are the sorted distinct keys
PivotTable(items, yrs, vals) ==
  PivotOf(items, yrs, vals, LexSort(Unique(items)), LexSort(Unique(yrs)))

StrColumn(df, name) == Tup([r \in 1..Len(df.rows) |-> Str(Column(df, name)[r])])

\* core/transforms.py pivot_statement(df)
pivot_statement(df) ==
  IF Len(df.rows) = 0 THEN EmptyFrame
  ELSE IF \E c \in {<<"a","c","c","o","u","n","t">>, <<"p","e","r","i","o","d">>, <<"v","a","l","u","e">>} : ~HasColumn(df, c) THEN Raised("KeyError")
  ELSE PivotTable(StrColumn(df, <<"a","c","c","o","u","n","t">>), StrColumn(df, <<"p","e","r","i","o","d">>), Column(df, <<"v","a","l","u","e">>))

\* IS_NAMES of financial_subtabs/income_statement.py
IS_NAMES == <<<<"I","N","C","O","M","E","_","S","T","A","T","E","M","E","N","T">>, <<"I","N","C","O","M","E"," ","S","T","A","T","E","M","E","N","T">>, <<"P","/","L">>, <<"P","R","O","F","I","T","_","A","N","D","_","L","O","S","S">>, <<"P","R","O","F","I","T"," ","O","R"," ","L","O","S","S">>>>

\* fin_df[mask]: the rows whose statement, in upper case, is one of the names
StatementMask(df, scol, stmt_names) ==
  [columns |-> df.columns,
   rows |-> SelectSeq(df.rows,
              LAMBDA row : \E s \in 1..Len(stmt_names) :
                Upper(Str(row[ColIndex(df, scol)])) = Upper(stmt_names[s]))]

SortedColumns(tab) ==
  Table(tab.index, sort_year_labels(tab.columns),
        Tup([a \in 1..Len(tab.index) |->
               Tup([b \in 1..Len(tab.columns) |->
                      tab.cells[a][IndexOf(tab.columns, sort_year_labels(tab.columns)[b], 1)]])]))

\* the pivot of the selected rows, its columns put in the order of
\* sort_year_labels where the module defines that function
PivotSelected(sub, lcol, vcol, ycol, sorter_defined) ==
  IF Len(sub.rows) = 0 THEN EmptyFrame
  ELSE IF ~sorter_defined THEN Raised("NameError")
  ELSE SortedColumns(PivotTable(StrColumn(sub, lcol), StrColumn(sub, ycol), Column(sub, vcol)))

PivotPicked(df, stmt_names, scol, lcol, vcol, ycol, sorter_defined) ==
  IF ~(scol.some /\ lcol.some /\ vcol.some /\ ycol.some) THEN EmptyFrame
  ELSE PivotSelected(StatementMask(df, scol.name, stmt_names), lcol.name, vcol.name, ycol.name,
                     sorter_defined)

\* pivot_long_to_table(fin_df, stmt_names); _pick is _find_col
PivotLongToTable(df, stmt_names, sorter_defined) ==
  PivotPicked(df, stmt_names,
              FindCol(df, <<<<"s","t","a","t","e","m","e","n","t">>, <<"s","e","c","t","i","o","n">>>>),
              FindCol(df, <<<<"l","i","n","e","i","t","e","m">>, <<"l","i","n","e","_","i","t","e","m">>, <<"l","i","n","e","_","i","t","e","m","_","n","a","m","e">>, <<"i","t","e","m">>, <<"a","c","c","o","u","n","t">>>>),
              FindCol(df, <<<<"v","a","l","u","e">>, <<"a","m","o","u","n","t">>>>),
              FindCol(df, <<<<"d","i","s","p","l","a","y","_","y","e","a","r">>, <<"y","e","a","r","_","l","a","b","e","l">>, <<"y","e","a","r">>>>),
              sorter_defined)

\* ultis/transforms.py defines sort_year_labels; utils/transforms.py calls it
\* at line 49 and does not define or import it
pivot_long_to_table_ultis(df, stmt_names) == PivotLongToTable(df, stmt_names, TRUE)

pivot_long_to_table_utils(df, stmt_names) == PivotLongToTable(df, stmt_names, FALSE)

\* ---- scoping by ticker and recent years: app.py, ui/layout.py, core/data_access.py ----
\* df[df[col] == t]
WhereEqual(df, col, cell) ==
  [columns |-> df.columns,
   rows |-> SelectSeq(df.rows, LAMBDA row : row[ColIndex(df, col)] = cell)]

\* seq[-n:]
LastOf(seq, n) == IF Len(seq) <= n THEN seq ELSE SubSeq(seq, Len(seq) - n + 1, Len(seq))

\* df[df[col].astype(str).isin(texts)]
WhereIn(df, col, texts) ==
  [columns |-> df.columns,
   rows |-> SelectSeq(df.rows,
              LAMBDA row : \E i \in 1..Len(texts) : texts[i] = Str(row[ColIndex(df, col)]))]

\* dropna().astype(str).unique().tolist()
DistinctTexts(cells) ==
  Unique(Tup([i \in 1..Len(SelectSeq(cells, LAMBDA c : ~IsNaN(c))) |->
                Str(SelectSeq(cells, LAMBDA c : ~IsNaN(c))[i])]))

\* app.py lines 366-377: the rows of the last n distinct years (n is 10)
ScopedRecent(scoped, n) ==
  IF HasColumn(scoped, DisplayYearColumn)
  THEN WhereIn(scoped, DisplayYearColumn,
               LastOf(SortedByYearLabel(DistinctTexts(Column(scoped, DisplayYearColumn))), n))
  ELSE scoped

\* app.py lines 365-377
Scoped(df, selected_ticker, n) ==
  ScopedRecent(WhereEqual(df, TickerColumn, Text(selected_ticker)), n)

\* a < b on two floats that are numbers
NumLess(a, b) == a.n * b.d < b.n * a.d

\* sort_values(col, ascending=...): a stable order on a frame of a few rows,
\* the rows without a value last
SortValues(df, col, ascending) ==
  [columns |-> df.columns,
   rows |-> StableSort(df.rows,
              LAMBDA a, b :
                /\ ~IsNaN(a[ColIndex(df, col)])
                /\ \/ IsNaN(b[ColIndex(df, col)])
                   \/ IF ascending THEN NumLess(a[ColIndex(df, col)], b[ColIndex(df, col)])
                      ELSE NumLess(b[ColIndex(df, col)], a[ColIndex(df, col)]))]

\* df.head(n)
HeadRows(df, n) == [columns |-> df.columns, rows |-> Take(df.rows, n)]

\* ui/layout.py filter_by_ticker_years, lines 165-167
RecentByYear(sub, years_) ==
  IF HasColumn(sub, YearColumn) /\ \E c \in Range(Column(sub, YearColumn)) : ~IsNaN(c)
  THEN SortValues(HeadRows(SortValues(sub, YearColumn, FALSE), years_), YearColumn, TRUE)
  ELSE sub

\* ui/layout.py filter_by_ticker_years(df, ticker, years)
FilterByTickerYearsLayout(df, ticker, years_) ==
  RecentByYear(WhereEqual(df, TickerColumn, Text(Strip(Upper(ticker)))), years_)

\* core/data_access.py line 192: the rows of the ticker, in upper case
WhereTickerUpper(df, ticker) ==
  IF HasColumn(df, <<"t","i","c","k","e","r">>) /\ ticker # <<>>
  THEN [columns |-> df.columns,
        rows |-> SelectSeq(df.rows,
                   LAMBDA row : Upper(Str(row[ColIndex(df, <<"t","i","c","k","e","r">>)])) = Upper(ticker))]
  ELSE df

\* out[time_col].astype(str), then sort_values(time_col, ascending=False): the
\* order of the texts
SortTextsDescending(df, col) ==
  [columns |-> df.columns,
   rows |-> StableSort(Assign(df, col, AsText(Column(df, col))).rows,
              LAMBDA a, b : LexLess(b[ColIndex(df, col)].t, a[ColIndex(df, col)].t))]

\* groupby(keys, as_index=False).head(n): the first n rows of every group
GroupHead(df, keys, n) ==
  [columns |-> df.columns,
   rows |-> Pick(df.rows,
              SelectSeq(Tup([r \in 1..Len(df.rows) |-> r]),
                LAMBDA r :
                  Cardinality({q \in 1..(r - 1) :
                     \A k \in 1..Len(keys) :
                       df.rows[q][ColIndex(df, keys[k])] = df.rows[r][ColIndex(df, keys[k])]}) < n))]

\* core/data_access.py lines 194-205
RecentPerGroup(out, time_col, years_) ==
  IF ~time_col.some THEN out
  ELSE GroupHead(SortTextsDescending(out, time_col.name),
                 SelectSeq(<<<<"s","t","a","t","e","m","e","n","t">>, <<"a","c","c","o","u","n","t">>>>, LAMBDA c : HasColumn(out, c)),
                 years_)

\* core/data_access.py filter_by_ticker_years(df, ticker, years)
FilterByTickerYearsAccess(df, ticker, years_) ==
  RecentPerGroup(WhereTickerUpper(df, ticker),
                 IF HasColumn(df, <<"p","e","r","i","o","d">>) THEN Some(<<"p","e","r","i","o","d">>)
                 ELSE IF HasColumn(df, <<"y","e","a","r">>) THEN Some(<<"y","e","a","r">>) ELSE None,
                 years_)

\* ---- ui/tabs/summary/modeling.py: the default label ----
\* df[df[col].str.contains(word, case=False, na=False)]
WhereContains(df, col, word) ==
  [columns |-> df.columns,
   rows |-> SelectSeq(df.rows,
              LAMBDA row : /\ row[ColIndex(df, col)].k = "text"
                           /\ Contains(word, Lower(row[ColIndex(df, col)].t)))]

\* modeling.py lines 11-12: the net profit records of the income statement
ProfitRecords(df) ==
  WhereContains(WhereContains(df, <<"s","t","a","t","e","m","e","n","t">>, <<"i","n","c","o","m","e">>), <<"a","c","c","o","u","n","t">>, <<"n","e","t"," ","p","r","o","f","i","t">>)

\* the sorted distinct labels of a column: the index and the columns of
\* pivot_table
SortedLabels(df, col) ==
  StableSort(Unique(Tup([r \in 1..Len(df.rows) |-> Str(Column(df, col)[r])])), LexLess)

\* pivot_table(index="ticker", columns="period", values="value",
\* aggfunc="sum"): the sum of the values of a ticker in a period, NaN where
\* the ticker has no record of the period
ProfitCell(profit, t, p) ==
  IF \E r \in 1..Len(profit.rows) :
       /\ Str(Column(profit, <<"t","i","c","k","e","r">>)[r]) = t
       /\ Str(Column(profit, <<"p","e","r","i","o","d">>)[r]) = p
  THEN SumSkipNa(Pick(Column(profit, <<"v","a","l","u","e">>),
         SelectSeq(Tup([r \in 1..Len(profit.rows) |-> r]),
           LAMBDA r : /\ Str(Column(profit, <<"t","i","c","k","e","r">>)[r]) = t
                      /\ Str(Column(profit, <<"p","e","r","i","o","d">>)[r]) = p)))
  ELSE NaN

\* (row.fillna(0) < 0).astype(int).tolist()
LossFlags(profit, t, periods) ==
  Tup([j \in 1..Len(periods) |->
         IF IsFinite(ProfitCell(profit, t, periods[j]))
            /\ NumLess(ProfitCell(profit, t, periods[j]), Num(0))
         THEN 1 ELSE 0])

\* 1 if any(sum(vals[i:i+3]) == 3 for i in range(max(0, len(vals) - 2))) else 0
ThreeInARow(vals) ==
  IF \E i \in 1..(Len(vals) - 2) : vals[i] + vals[i + 1] + vals[i + 2] = 3 THEN 1 ELSE 0

\* modeling.py lines 13-19: label_df
LabelTable(profit) ==
  [columns |-> <<<<"t","i","c","k","e","r">>, <<"D","e","f","a","u","l","t">>>>,
   rows |-> Tup([i \in 1..Len(SortedLabels(profit, <<"t","i","c","k","e","r">>)) |->
              <<Text(SortedLabels(profit, <<"t","i","c","k","e","r">>)[i]),
                Num(ThreeInARow(LossFlags(profit, SortedLabels(profit, <<"t","i","c","k","e","r">>)[i],
                                          SortedLabels(profit, <<"p","e","r","i","o","d">>))))>>])]

\* render(fin_filtered): the table of labels shown, none for an empty table
RenderDefaultLabel(fin_filtered) ==
  IF Len(fin_filtered.rows) = 0 THEN NoTable ELSE LabelTable(ProfitRecords(fin_filtered))

\* the files at data/bctc_final.csv: a statement with an actual and a forecast
\* period, a semicolon file, two files that start with the bytes PK, a file
\* with a title line, a word, an empty file, and no file
File(lines) == [exists |-> TRUE, lines |-> lines]

NoFile == [exists |-> FALSE, lines |-> <<>>]

PeriodFile == File(<<<<"T","i","c","k","e","r",",","Y","e","a","r",",","N","e","t"," ","R","e","v","e","n","u","e">>, <<"A","A","A",",","2","0","2","4",",","5">>, <<"A","A","A",",","2","0","2","4","F",",","7">>>>)

SemicolonFile == File(<<<<"T","i","c","k","e","r",";","Y","e","a","r",";","N","e","t"," ","R","e","v","e","n","u","e">>, <<"b","b","b",";","2","0","2","3",";","9">>>>)

\* the files read: 7-bit text with a first line that is not blank (a file of
\* blank lines only, which utf-16 would decode to other characters, is left
\* out)
ReaderFiles ==
  {PeriodFile, SemicolonFile,
   File(<<<<"P","K",",","T","i","c","k","e","r",",","Y","e","a","r">>, <<"1",",","A","A","A",",","2","0","2","3">>>>),
   File(<<<<"P","K","!","#">>>>),
   File(<<<<"A","n","n","u","a","l"," ","r","e","p","o","r","t">>, <<"T","i","c","k","e","r",",","Y","e","a","r",",","V","a","l","u","e">>, <<"C","C","C",",","2","0","2","2",",","3">>>>),
   File(<<<<"h","e","l","l","o">>>>),
   File(<<>>),
   NoFile}

SessionFiles == {PeriodFile, SemicolonFile, NoFile}

\* the tables build_display_year_column is called with
DisplayInputs ==
  {[columns |-> <<<<"T","i","c","k","e","r">>, <<"Y","e","a","r">>, <<"N","e","t"," ","R","e","v","e","n","u","e">>>>,
    rows |-> <<<<Text(<<"A","A","A">>), Text(<<"2","0","2","4">>), Num(5)>>, <<Text(<<"A","A","A">>), Text(<<"2","0","2","4","F">>), Num(7)>>>>],
   [columns |-> <<<<"T","i","c","k","e","r">>, <<"d","i","s","p","l","a","y","_","y","e","a","r">>, <<"N","e","t"," ","R","e","v","e","n","u","e">>>>,
    rows |-> <<<<Text(<<"A","A","A">>), Num(2023), Num(5)>>>>],
   [columns |-> <<<<"T","i","c","k","e","r">>, <<"d","i","s","p","l","a","y","_","y","e","a","r">>, <<"N","e","t"," ","R","e","v","e","n","u","e">>>>,
    rows |-> <<<<Text(<<"A","A","A">>), Text(<<"2","0","2","3">>), Num(5)>>>>],
   [columns |-> <<<<"T","i","c","k","e","r">>, <<"y","e","a","r">>>>, rows |-> <<<<Text(<<"A","A","A">>), Num(2022)>>>>],
   [columns |-> <<<<"T","i","c","k","e","r">>, <<"N","e","t"," ","R","e","v","e","n","u","e">>>>, rows |-> <<<<Text(<<"A","A","A">>), Num(5)>>>>],
   EmptyShell}

\* the files whose lines _guess_header_and_sep is given: a header with a
\* ticker keyword under each delimiter, a title line before the header, a
\* header without keyword, two columns only, no delimiter
GuessFiles ==
  {PeriodFile, SemicolonFile,
   File(<<<<"T","i","c","k","e","r","|","Y","e","a","r","|","V","a","l","u","e">>, <<"A","A","A","|","2","0","2","3","|","5">>>>),
   File(<<<<"A","n","n","u","a","l"," ","r","e","p","o","r","t">>, <<"T","i","c","k","e","r",",","Y","e","a","r",",","V","a","l","u","e">>, <<"C","C","C",",","2","0","2","2",",","3">>>>),
   File(<<<<"Y","e","a","r",";","I","t","e","m">>, <<"Y","e","a","r",",","I","t","e","m",",","V","a","l","u","e",",","U","n","i","t">>, <<"2","0","2","2",",","C","a","s","h",",","3",",","V","N","D">>>>),
   File(<<<<"Y","e","a","r",";","V","a","l","u","e">>, <<"2","0","2","2",";","3">>>>),
   File(<<<<"h","e","l","l","o">>>>)}

\* the files load_financial_csv is called with: a ticker cell left empty, no
\* ticker column, no year and no period column, a period column only, a year
\* that is not a number
LoadFiles ==
  {PeriodFile, SemicolonFile,
   File(<<<<"T","i","c","k","e","r",",","Y","e","a","r",",","V","a","l","u","e">>, <<",","2","0","2","3",",","5">>, <<"A","A","A",",","2","0","2","2",",","3">>>>),
   File(<<<<"Y","e","a","r",",","V","a","l","u","e">>, <<"2","0","2","3",",","5">>>>),
   File(<<<<"T","i","c","k","e","r",",","V","a","l","u","e">>, <<"A","A","A",",","5">>>>),
   File(<<<<"T","i","c","k","e","r",",","P","e","r","i","o","d",",","V","a","l","u","e">>, <<"A","A","A",",","2","0","2","3","Q","1",",","5">>>>),
   File(<<<<"T","i","c","k","e","r",",","Y","e","a","r",",","V","a","l","u","e">>, <<"A","A","A",",","x",",","5">>>>),
   NoFile}

ReaderOps == {"_read_csv_robust", "_read_csv_robust_any", "read_csv_smart"}

DisplayOps ==
  {"utils.build_display_year_column", "ultis.build_display_year_column",
   "app.build_display_year_column", "_fallback_build_display_year_column"}

\* wide statement sheets: a line-item column and two period columns, two
\* line items, a number or nothing in a cell
SheetPeriods == {<<<<"2","0","2","1">>, <<"2","0","2","2","F">>>>, <<<<"2","0","2","2">>, <<"2","0","2","1">>>>, <<<<"2","0","2","1","-","Q","1">>, <<"2","0","2","2">>>>}

SheetCells == {Num(3), NaN}

WideSheets ==
  {[columns |-> <<<<"a","c","c","o","u","n","t">>>> \o p,
    rows |-> <<<<Text(<<"N","e","t"," ","R","e","v","e","n","u","e">>), a, b>>, <<Text(<<"C","O","G","S">>), c, Num(2)>>>>] :
     p \in SheetPeriods, a \in SheetCells, b \in SheetCells, c \in SheetCells}

\* the long form of a wide sheet, as the ingestion stage reshapes it: one
\* record per line item and period column, with the column header as period
\* label and the cell as value, under one statement
Melt(wide, period_name) ==
  [columns |-> <<<<"s","t","a","t","e","m","e","n","t">>, <<"a","c","c","o","u","n","t">>, period_name, <<"v","a","l","u","e">>>>,
   rows |-> Flatten(Tup([r \in 1..Len(wide.rows) |->
              Tup([c \in 1..(Len(wide.columns) - 1) |->
                     <<Text(<<"I","n","c","o","m","e"," ","S","t","a","t","e","m","e","n","t">>), wide.rows[r][1], Text(wide.columns[c + 1]),
                       wide.rows[r][c + 1]>>])]))]

\* long tables without an income statement, and without a value column
OtherLong ==
  {[columns |-> <<<<"s","t","a","t","e","m","e","n","t">>, <<"a","c","c","o","u","n","t">>, <<"y","e","a","r">>, <<"v","a","l","u","e">>>>,
    rows |-> <<<<Text(<<"B","a","l","a","n","c","e"," ","S","h","e","e","t">>), Text(<<"T","o","t","a","l"," ","A","s","s","e","t","s">>), Text(<<"2","0","2","2">>), Num(3)>>>>],
   [columns |-> <<<<"s","t","a","t","e","m","e","n","t">>, <<"a","c","c","o","u","n","t">>, <<"y","e","a","r">>>>,
    rows |-> <<<<Text(<<"I","n","c","o","m","e"," ","S","t","a","t","e","m","e","n","t">>), Text(<<"N","e","t"," ","R","e","v","e","n","u","e">>), Text(<<"2","0","2","2">>)>>>>]}

PivotInputs == {Melt(w, <<"y","e","a","r">>) : w \in WideSheets} \cup OtherLong

StatementInputs == {Melt(w, <<"p","e","r","i","o","d">>) : w \in WideSheets} \cup OtherLong

PivotOps == {"utils.pivot_long_to_table", "ultis.pivot_long_to_table", "income_statement.render"}

\* the records of the tables that are scoped: per period, latest first, a
\* block of records of the ticker AAA, then possibly a record of BBB
ScopeBlocks(p, accounts) ==
  {Tup([i \in 1..Len(b) |-> [t |-> <<"A","A","A">>, a |-> b[i], p |-> p]]) : b \in accounts}

RECURSIVE ScopeRecords(_, _)
ScopeRecords(accounts, k) ==
  IF k = 0 THEN {<<>>}
  ELSE {t \o b : t \in ScopeRecords(accounts, k - 1), b \in ScopeBlocks(Periods[k], accounts)}

ScopeLists(accounts) ==
  {t \o o : t \in ScopeRecords(accounts, MaxPeriods),
            o \in {<<>>, <<[t |-> <<"B","B","B">>, a |-> <<"C","a","s","h">>, p |-> Periods[1]]>>}}

\* one row per period, or several
RepeatedRows == {<<>>, <<<<"C","a","s","h">>>>, <<<<"C","a","s","h">>, <<"C","a","s","h">>>>}

\* one row per account and period, an account missing in a period
AccountRows_ == {<<>>, <<<<"C","a","s","h">>>>, <<<<"D","e","b","t">>>>, <<<<"C","a","s","h">>, <<"D","e","b","t">>>>}

AppTables ==
  {[columns |-> <<TickerColumn, DisplayYearColumn, <<"N","e","t"," ","R","e","v","e","n","u","e">>>>,
    rows |-> Tup([i \in 1..Len(l) |-> <<Text(l[i].t), Text(l[i].p), Num(i)>>])] :
     l \in ScopeLists(RepeatedRows)}

LayoutTables ==
  {[columns |-> <<TickerColumn, YearColumn, <<"N","e","t"," ","R","e","v","e","n","u","e">>>>,
    rows |-> Tup([i \in 1..Len(l) |-> <<Text(l[i].t), Num(DigitsValue(l[i].p)), Num(i)>>])] :
     l \in ScopeLists(RepeatedRows)}

AccessTables ==
  {[columns |-> <<<<"t","i","c","k","e","r">>, <<"a","c","c","o","u","n","t">>, <<"y","e","a","r">>, <<"v","a","l","u","e">>>>,
    rows |-> Tup([i \in 1..Len(l) |-> <<Text(l[i].t), Text(l[i].a), Text(l[i].p), Num(i)>>])] :
     l \in ScopeLists(AccountRows_)}

\* the arguments ticker and years, years as its digits
ScopeArguments == {<<<<"A","A","A">>, NatStr(n)>> : n \in 1..MaxPeriods}

ScopeOps == {"app.scoped", "layout.filter_by_ticker_years", "data_access.filter_by_ticker_years"}

\* the tables the default label is computed from: for the ticker AAA and each
\* period, latest first, no record, a record without a value, a loss or a
\* gain; a result in two records; a record of the net profit before tax
\* beside it; the records of a second ticker after them
ProfitRecord(t, a, p, v) == <<Text(t), Text(<<"I","n","c","o","m","e"," ","S","t","a","t","e","m","e","n","t">>), Text(a), Text(p), v>>

AfterTax == <<"N","e","t"," ","P","r","o","f","i","t","/","(","L","o","s","s",")"," ","A","f","t","e","r"," ","T","a","x">>

BeforeTax == <<"N","e","t"," ","P","r","o","f","i","t","/","(","L","o","s","s",")"," ","B","e","f","o","r","e"," ","T","a","x">>

PeriodRecords(p, variant) ==
  {<<>>, <<ProfitRecord(<<"A","A","A">>, AfterTax, p, NaN)>>}
    \cup (IF variant = "split"
          THEN {<<ProfitRecord(<<"A","A","A">>, AfterTax, p, Num(0 - 2)), ProfitRecord(<<"A","A","A">>, AfterTax, p, Num(1))>>,
                <<ProfitRecord(<<"A","A","A">>, AfterTax, p, Num(2)), ProfitRecord(<<"A","A","A">>, AfterTax, p, Num(0 - 1))>>}
          ELSE IF variant = "before"
          THEN {<<ProfitRecord(<<"A","A","A">>, AfterTax, p, Num(0 - 1)), ProfitRecord(<<"A","A","A">>, BeforeTax, p, Num(2))>>,
                <<ProfitRecord(<<"A","A","A">>, AfterTax, p, Num(1)), ProfitRecord(<<"A","A","A">>, BeforeTax, p, Num(2))>>}
          ELSE {<<ProfitRecord(<<"A","A","A">>, AfterTax, p, Num(0 - 1))>>,
                <<ProfitRecord(<<"A","A","A">>, AfterTax, p, Num(1))>>})

RECURSIVE ProfitHistory(_, _)
ProfitHistory(k, variant) ==
  IF k = 0 THEN {<<>>}
  ELSE {h \o b : h \in ProfitHistory(k - 1, variant), b \in PeriodRecords(Periods[k], variant)}

OtherRecords(variant) ==
  IF variant = "second"
  THEN Tup([k \in 1..Len(Periods) |-> ProfitRecord(<<"B","B","B">>, AfterTax, Periods[k], Num(1))])
  ELSE IF variant = "split"
  THEN <<<<Text(<<"A","A","A">>), Text(<<"B","a","l","a","n","c","e"," ","S","h","e","e","t">>), Text(<<"C","a","s","h">>), Text(Periods[1]), Num(0 - 9)>>>>
  ELSE <<>>

DefaultLabelTables(variant) ==
  {[columns |-> <<<<"t","i","c","k","e","r">>, <<"s","t","a","t","e","m","e","n","t">>, <<"a","c","c","o","u","n","t">>, <<"p","e","r","i","o","d">>, <<"v","a","l","u","e">>>>,
    rows |-> h \o OtherRecords(variant)] : h \in ProfitHistory(Len(Periods), variant)}

LabelInputs == UNION {DefaultLabelTables(variant) : variant \in {"plain", "split", "before", "second"}}

(***************************************************************************)
(* The state machine: one call per behaviour, or a session of file writes *)
(* and calls of the memoized loaders                                       *)
(***************************************************************************)
NoView == Raised("none")

NoFound ==
  [Revenue |-> <<>>, COGS |-> <<>>, EBIT |-> <<>>, NetIncome |-> <<>>, TotalAssets |-> <<>>,
   TotalEquity |-> <<>>, TotalLiabilities |-> <<>>, OperatingCF |-> <<>>]

Init ==
  /\ S = NoSeries
  /\ years = <<>>
  /\ loc = <<>>
  /\ view = NoView
  /\ found = NoFound
  /\ ratios = <<>>
  /\ ordered = <<>>
  /\ metric = Raise("none")
  /\ cache = NoCache
  /\ result = NoResult
  /\ \/ /\ op = "compute_indicators"
        /\ fin_df \in ComputeInputs
        /\ labels = <<>>
        /\ asked = ""
     \/ /\ op = "build_indicators"
        /\ fin_df \in BuildInputs
        /\ labels = <<>>
        /\ asked = ""
     \/ /\ op \in {"sort_year_label", "sort_year_labels"}
        /\ fin_df = NoTable
        /\ labels \in LabelLists
        /\ asked = ""
     \/ /\ op = "fetch_metric_series"
        /\ fin_df \in FetchInputs
        /\ labels = <<>>
        /\ asked \in FetchKeyInputs
     \/ /\ op = "_match_alias"
        /\ fin_df = NoTable
        /\ \/ labels \in AliasLabelLists /\ asked \in AliasKeyInputs
           \/ labels \in ExactLabelLists /\ asked \in ExactKeyInputs
     \/ /\ op \in ReaderOps \cup {"session", "_guess_header_and_sep"}
        /\ fin_df = NoTable
        /\ labels = <<>>
        /\ asked = ""
     \/ /\ op \in DisplayOps
        /\ fin_df \in DisplayInputs
        /\ labels = <<>>
        /\ asked = ""
     \/ /\ op \in PivotOps
        /\ fin_df \in PivotInputs
        /\ labels = <<>>
        /\ asked = ""
     \/ /\ op = "pivot_statement"
        /\ fin_df \in StatementInputs
        /\ labels = <<>>
        /\ asked = ""
     \/ /\ \/ op = "app.scoped" /\ fin_df \in AppTables
           \/ op = "layout.filter_by_ticker_years" /\ fin_df \in LayoutTables
           \/ op = "data_access.filter_by_ticker_years" /\ fin_df \in AccessTables
        /\ labels \in ScopeArguments
        /\ asked = ""
     \/ /\ op = "modeling.render"
        /\ fin_df \in LabelInputs
        /\ labels = <<>>
        /\ asked = ""
     \/ /\ op = "load_financial_csv"
        /\ fin_df = NoTable
        /\ labels = <<>>
        /\ asked = ""
  /\ \/ op \in ReaderOps /\ disk \in ReaderFiles \cup GuessFiles /\ pc = "ready"
     \/ op = "_guess_header_and_sep" /\ disk \in GuessFiles /\ pc = "ready"
     \/ op = "session" /\ disk \in SessionFiles /\ pc = "serving"
     \/ op = "load_financial_csv" /\ disk \in LoadFiles /\ pc = "ready"
     \/ /\ op \notin ReaderOps \cup {"session", "_guess_header_and_sep", "load_financial_csv"}
        /\ disk = NoFile
        /\ pc = "ready"

\* view = compute_indicators(fin_df)
ComputeIndicators ==
  /\ pc = "ready"
  /\ op = "compute_indicators"
  /\ LET r == compute_indicators(fin_df)
     IN  /\ S' = r.S
         /\ years' = r.years
         /\ loc' = r.loc
         /\ view' = r.view
  /\ fin_df' = CallersTable(fin_df)
  /\ pc' = "done"
  /\ UNCHANGED <<op, labels, found, ratios, ordered, asked, metric, disk, cache, result>>

\* compute_indicators(fin_df) once more, on the table the first call left
ComputeIndicatorsAgain ==
  /\ pc = "done"
  /\ op = "compute_indicators"
  /\ LET r == compute_indicators(fin_df)
     IN  /\ S' = r.S
         /\ years' = r.years
         /\ loc' = r.loc
         /\ view' = r.view
  /\ fin_df' = CallersTable(fin_df)
  /\ pc' = "again"
  /\ UNCHANGED <<op, labels, found, ratios, ordered, asked, metric, disk, cache, result>>

\* ratios = build_indicators(fin_df, kw)
BuildIndicators ==
  /\ pc = "ready"
  /\ op = "build_indicators"
  /\ LET r == build_indicators(fin_df)
     IN  /\ found' = r.found
         /\ ratios' = r.table
  /\ pc' = "done"
  /\ UNCHANGED <<op, fin_df, labels, S, years, loc, view, ordered, asked, metric, disk,
               cache, result>>

\* sorted(labels, key=sort_year_label)
SortByYearLabel ==
  /\ pc = "ready"
  /\ op = "sort_year_label"
  /\ ordered' = SortedByYearLabel(labels)
  /\ pc' = "done"
  /\ UNCHANGED <<op, fin_df, labels, S, years, loc, view, found, ratios, asked, metric,
               disk, cache, result>>

\* sort_year_labels(labels)
SortYearLabels ==
  /\ pc = "ready"
  /\ op = "sort_year_labels"
  /\ ordered' = sort_year_labels(labels)
  /\ pc' = "done"
  /\ UNCHANGED <<op, fin_df, labels, S, years, loc, view, found, ratios, asked, metric,
               disk, cache, result>>

\* ordered = _match_alias(labels, ALIAS[asked])
MatchAliasOfKey ==
  /\ pc = "ready"
  /\ op = "_match_alias"
  /\ ordered' = Pick(labels, MatchAlias(labels, NormList(labels), NormAlias[asked]))
  /\ pc' = "done"
  /\ UNCHANGED <<op, fin_df, labels, S, years, loc, view, found, ratios, asked, metric,
               disk, cache, result>>

\* metric = fetch_metric_series(fin_df, asked)
Fetch ==
  /\ pc = "ready"
  /\ op = "fetch_metric_series"
  /\ metric' = FetchMetricSeries(fin_df, asked)
  /\ pc' = "done"
  /\ UNCHANGED <<op, fin_df, labels, S, years, loc, view, found, ratios, ordered, asked,
               disk, cache, result>>

\* result = _read_csv_robust(path)
ReadRobust ==
  /\ pc = "ready"
  /\ op = "_read_csv_robust"
  /\ result' = ReadCsvRobust(disk)
  /\ pc' = "done"
  /\ UNCHANGED <<op, fin_df, labels, S, years, loc, view, found, ratios, ordered,
               asked, metric, disk, cache>>

\* result.info = _guess_header_and_sep(lines): the separator and the index
GuessHeader ==
  /\ pc = "ready"
  /\ op = "_guess_header_and_sep"
  /\ result' = Loaded(NoTable,
                      <<<<GuessHeaderAndSep(disk.lines).sep>>,
                        NatStr(GuessHeaderAndSep(disk.lines).idx)>>,
                      <<"guess">>)
  /\ pc' = "done"
  /\ UNCHANGED <<op, fin_df, labels, S, years, loc, view, found, ratios, ordered,
               asked, metric, disk, cache>>

\* result = _read_csv_robust_any(path), not memoized
ReadRobustAny ==
  /\ pc = "ready"
  /\ op = "_read_csv_robust_any"
  /\ result' = ReadCsvRobustAny(disk)
  /\ pc' = "done"
  /\ UNCHANGED <<op, fin_df, labels, S, years, loc, view, found, ratios, ordered,
               asked, metric, disk, cache>>

\* result = read_csv_smart()
ReadSmart ==
  /\ pc = "ready"
  /\ op = "read_csv_smart"
  /\ result' = read_csv_smart(disk)
  /\ pc' = "done"
  /\ UNCHANGED <<op, fin_df, labels, S, years, loc, view, found, ratios, ordered,
               asked, metric, disk, cache>>

\* the file is replaced by another one
WriteFile ==
  /\ op = "session"
  /\ disk' \in SessionFiles \ {disk}
  /\ UNCHANGED <<pc, op, fin_df, labels, S, years, loc, view, found, ratios,
               ordered, asked, metric, cache, result>>

\* result = f(path) for a memoized loader f
LoadMemoized ==
  /\ op = "session"
  /\ \E f \in Range(Loaders) :
       /\ asked' = f
       /\ result' = Call(cache, disk, f)
       /\ cache' = Stored(cache, disk, f)
  /\ UNCHANGED <<pc, op, fin_df, labels, S, years, loc, view, found, ratios,
               ordered, metric, disk>>

\* result = build_display_year_column(fin_df) of utils/transforms.py, which
\* returns fin_df itself after adding or rewriting its display_year column
BuildDisplayYearColumnUtils ==
  /\ pc = "ready"
  /\ op = "utils.build_display_year_column"
  /\ fin_df' = BuildDisplayYearUtils(fin_df)
  /\ result' = Loaded(BuildDisplayYearUtils(fin_df), <<>>, <<>>)
  /\ pc' = "done"
  /\ UNCHANGED <<op, labels, S, years, loc, view, found, ratios, ordered, asked,
               metric, disk, cache>>

\* result = build_display_year_column(fin_df) of ultis/transforms.py
BuildDisplayYearColumnUltis ==
  /\ pc = "ready"
  /\ op = "ultis.build_display_year_column"
  /\ result' = Loaded(BuildDisplayYearUltis(fin_df), <<>>, <<>>)
  /\ pc' = "done"
  /\ UNCHANGED <<op, fin_df, labels, S, years, loc, view, found, ratios, ordered,
               asked, metric, disk, cache>>

\* result = build_display_year_column(fin_df) of app.py: BUILD_YEAR_COL is the
\* function of utils/transforms.py, which does not raise, so the fallback is
\* not reached
BuildDisplayYearColumnApp ==
  /\ pc = "ready"
  /\ op = "app.build_display_year_column"
  /\ fin_df' = BuildDisplayYearUtils(fin_df)
  /\ result' = Loaded(BuildDisplayYearUtils(fin_df), <<>>, <<>>)
  /\ pc' = "done"
  /\ UNCHANGED <<op, labels, S, years, loc, view, found, ratios, ordered, asked,
               metric, disk, cache>>

\* result = _fallback_build_display_year_column(fin_df)
FallbackBuildDisplayYearColumn ==
  /\ pc = "ready"
  /\ op = "_fallback_build_display_year_column"
  /\ result' = Loaded(FallbackBuildDisplayYear(fin_df), <<>>, <<>>)
  /\ pc' = "done"
  /\ UNCHANGED <<op, fin_df, labels, S, years, loc, view, found, ratios, ordered,
               asked, metric, disk, cache>>

\* view = pivot_statement(fin_df)
PivotStatement ==
  /\ pc = "ready"
  /\ op = "pivot_statement"
  /\ view' = pivot_statement(fin_df)
  /\ pc' = "done"
  /\ UNCHANGED <<op, fin_df, labels, S, years, loc, found, ratios, ordered, asked,
               metric, disk, cache, result>>

\* view = pivot_long_to_table(fin_df, IS_NAMES) of utils/transforms.py
PivotLongToTableUtils ==
  /\ pc = "ready"
  /\ op = "utils.pivot_long_to_table"
  /\ view' = pivot_long_to_table_utils(fin_df, IS_NAMES)
  /\ pc' = "done"
  /\ UNCHANGED <<op, fin_df, labels, S, years, loc, found, ratios, ordered, asked,
               metric, disk, cache, result>>

\* view = pivot_long_to_table(fin_df, IS_NAMES) of ultis/transforms.py
PivotLongToTableUltis ==
  /\ pc = "ready"
  /\ op = "ultis.pivot_long_to_table"
  /\ view' = pivot_long_to_table_ultis(fin_df, IS_NAMES)
  /\ pc' = "done"
  /\ UNCHANGED <<op, fin_df, labels, S, years, loc, found, ratios, ordered, asked,
               metric, disk, cache, result>>

\* render(fin_df) of financial_subtabs/income_statement.py: display_year is
\* built on fin_df by the function of utils/transforms.py, then view is the
\* table pivot_long_to_table of utils/transforms.py returns
RenderIncomeStatement ==
  /\ pc = "ready"
  /\ op = "income_statement.render"
  /\ fin_df' = BuildDisplayYearUtils(fin_df)
  /\ view' = pivot_long_to_table_utils(BuildDisplayYearUtils(fin_df), IS_NAMES)
  /\ pc' = "done"
  /\ UNCHANGED <<op, labels, S, years, loc, found, ratios, ordered, asked, metric,
               disk, cache, result>>

\* result.df = scoped of app.py for the ticker labels[1], with labels[2]
\* years kept where the code keeps 10
ScopeApp ==
  /\ pc = "ready"
  /\ op = "app.scoped"
  /\ result' = Loaded(Scoped(fin_df, labels[1], DigitsValue(labels[2])), <<>>, <<>>)
  /\ pc' = "done"
  /\ UNCHANGED <<op, fin_df, labels, S, years, loc, view, found, ratios, ordered,
               asked, metric, disk, cache>>

\* result.df = filter_by_ticker_years(fin_df, labels[1], labels[2]) of ui/layout.py
FilterLayout ==
  /\ pc = "ready"
  /\ op = "layout.filter_by_ticker_years"
  /\ result' = Loaded(FilterByTickerYearsLayout(fin_df, labels[1], DigitsValue(labels[2])),
                      <<>>, <<>>)
  /\ pc' = "done"
  /\ UNCHANGED <<op, fin_df, labels, S, years, loc, view, found, ratios, ordered,
               asked, metric, disk, cache>>

\* result.df = filter_by_ticker_years(fin_df, labels[1], labels[2]) of
\* core/data_access.py
FilterAccess ==
  /\ pc = "ready"
  /\ op = "data_access.filter_by_ticker_years"
  /\ result' = Loaded(FilterByTickerYearsAccess(fin_df, labels[1], DigitsValue(labels[2])),
                      <<>>, <<>>)
  /\ pc' = "done"
  /\ UNCHANGED <<op, fin_df, labels, S, years, loc, view, found, ratios, ordered,
               asked, metric, disk, cache>>

\* result = load_financial_csv(path) of ui/layout.py, nothing memoized yet
LoadFinancialCsv ==
  /\ pc = "ready"
  /\ op = "load_financial_csv"
  /\ result' = LoadFinancialCsvBody(NoCache, disk)
  /\ pc' = "done"
  /\ UNCHANGED <<op, fin_df, labels, S, years, loc, view, found, ratios, ordered,
               asked, metric, disk, cache>>

\* result.df = the label table render(fin_df) of modeling.py shows
RenderModeling ==
  /\ pc = "ready"
  /\ op = "modeling.render"
  /\ result' = Loaded(RenderDefaultLabel(fin_df), <<>>, <<>>)
  /\ pc' = "done"
  /\ UNCHANGED <<op, fin_df, labels, S, years, loc, view, found, ratios, ordered,
               asked, metric, disk, cache>>

Next ==
  \/ ComputeIndicators
  \/ ComputeIndicatorsAgain
  \/ BuildIndicators
  \/ SortByYearLabel
  \/ SortYearLabels
  \/ Fetch
  \/ MatchAliasOfKey
  \/ ReadRobust
  \/ GuessHeader
  \/ ReadRobustAny
  \/ ReadSmart
  \/ WriteFile
  \/ LoadMemoized
  \/ BuildDisplayYearColumnUtils
  \/ BuildDisplayYearColumnUltis
  \/ BuildDisplayYearColumnApp
  \/ FallbackBuildDisplayYearColumn
  \/ PivotStatement
  \/ PivotLongToTableUtils
  \/ PivotLongToTableUltis
  \/ RenderIncomeStatement
  \/ ScopeApp
  \/ FilterLayout
  \/ FilterAccess
  \/ LoadFinancialCsv
  \/ RenderModeling

Spec == Init /\ [][Next]_vars

(***************************************************************************)
(* Properties                                                              *)
(***************************************************************************)
\* compute_indicators has been called; it has returned a table
Called == pc = "done" /\ op = "compute_indicators"

Returned == Called /\ view.exc = ""

Built == pc = "done" /\ op = "build_indicators"

Sorted == pc = "done" /\ op \in {"sort_year_label", "sort_year_labels"}

\* the 20-name catalogue of the specification, in its fixed order
Catalogue ==
  << "Current Ratio", "Quick Ratio", "Working Capital to Total Assets", "Debt to Assets",
     "Debt to Equity", "Equity to Liabilities", "Long Term Debt to Assets",
     "Net Debt to Equity", "Receivables Turnover", "Inventory Turnover", "Asset Turnover",
     "ROA", "ROE", "EBIT to Assets", "Operating Income to Debt", "Net Profit Margin",
     "Gross Margin", "Interest Coverage", "EBITDA to Interest", "Total Debt to EBITDA" >>

\* the cell of the returned table in the row of an indicator, period column j
RowOf(name) == CHOOSE r \in 1..Len(view.index) : view.index[r] = name

Cell(name, j) == view.cells[RowOf(name)][j]

\* the labels of a table: its column names and its text cells
TableLabels(df) ==
  Range(df.columns)
    \cup {df.rows[rc[1]][rc[2]].t :
            rc \in {x \in (1..Len(df.rows)) \X (1..Len(df.columns)) :
                      df.rows[x[1]][x[2]].k = "text"}}

LabelMatches(l, alias_key) ==
  \E q \in 1..Len(NormAlias[alias_key]) :
    NormAlias[alias_key][q] # <<>> /\ Contains(NormAlias[alias_key][q], Norm(l))

NoLabel(df, alias_key) == \A l \in TableLabels(df) : ~LabelMatches(l, alias_key)

Present(v) == IsFinite(v) /\ ~IsZero(v)

\* the denominator of an indicator's formula among the values of a period
Denominator(ind, L) ==
  CASE ind \in {"Current Ratio", "Quick Ratio"} -> L.cl
    [] ind \in {"Working Capital to Total Assets", "Debt to Assets",
                "Long Term Debt to Assets"} -> L.ta
    [] ind \in {"Debt to Equity", "Net Debt to Equity"} -> L.eq
    [] ind = "Equity to Liabilities" -> L.tl
    [] ind = "Receivables Turnover" -> L.A_ar
    [] ind = "Inventory Turnover" -> L.A_inv
    [] ind \in {"Asset Turnover", "ROA", "EBIT to Assets"} -> L.A_assets
    [] ind = "ROE" -> L.A_equity
    [] ind = "Operating Income to Debt" -> FirstNonNan(<<L.td, L.tl>>)
    [] ind \in {"Net Profit Margin", "Gross Margin"} -> L.revenue
    [] ind \in {"Interest Coverage", "EBITDA to Interest"} -> L.interest_exp
    [] ind = "Total Debt to EBITDA" -> L.ebt_da

\* the values of the concepts an indicator's numerator is made of
Numerators(ind, L) ==
  CASE ind = "Current Ratio" -> {L.ca}
    [] ind = "Quick Ratio" -> {L.ca, L.inv, L.cash, L.ar}
    [] ind = "Working Capital to Total Assets" -> {L.ca, L.cl}
    [] ind \in {"Debt to Assets", "Debt to Equity", "Total Debt to EBITDA"} ->
         {L.sd, L.ld, L.td, L.tl}
    [] ind = "Equity to Liabilities" -> {L.eq}
    [] ind = "Long Term Debt to Assets" -> {L.ld}
    [] ind = "Net Debt to Equity" -> {L.sd, L.ld, L.td, L.tl, L.cash}
    [] ind \in {"Receivables Turnover", "Asset Turnover"} -> {L.revenue}
    [] ind = "Inventory Turnover" -> {L.cogs, L.revenue}
    [] ind \in {"ROA", "ROE", "Net Profit Margin"} -> {L.net_profit}
    [] ind \in {"EBIT to Assets", "Interest Coverage"} -> {L.ebit}
    [] ind = "Operating Income to Debt" -> {L.ebit, L.operating_income}
    [] ind = "Gross Margin" -> {L.gross_profit}
    [] ind = "EBITDA to Interest" -> {L.ebt_da}

\* the concepts whose series are denominators
DenominatorKeys ==
  {"current_liab", "total_assets", "equity", "total_liab", "receivables", "inventory",
   "revenue", "interest_exp"}

\* C1: if no label of the input table (column name or line item) matches a
\* current_liab alias, compute_indicators returns without raising and the
\* Current Ratio cell of every period column is NaN.
C1_CurrentRatioAbsent ==
  (Called /\ NoLabel(fin_df, "current_liab"))
    => /\ view.exc = ""
       /\ \A j \in 1..Len(loc) : IsNaN(Cell("Current Ratio", j))

\* C2: for each of the 20 indicators and every period, a zero or absent
\* denominator gives a NaN cell, and compute_indicators raises nothing (in
\* particular when a denominator concept has no label in the table at all).
C2_AbsentOnZeroDenominator ==
  Called =>
    /\ (\E k \in DenominatorKeys : NoLabel(fin_df, k)) => view.exc = ""
    /\ view.exc = "" =>
         \A j \in 1..Len(loc) : \A r \in 1..Len(Catalogue) :
           ~Present(Denominator(Catalogue[r], loc[j])) => IsNaN(Cell(Catalogue[r], j))

\* C3: for every indicator and period, when every concept of the numerator is
\* NaN in that period and the denominator is a non-zero number, the cell is
\* NaN (not 0).
C3_AbsentNumeratorStaysAbsent ==
  Returned =>
    \A j \in 1..Len(loc) : \A r \in 1..Len(Catalogue) :
      (/\ \A v \in Numerators(Catalogue[r], loc[j]) : IsNaN(v)
       /\ Present(Denominator(Catalogue[r], loc[j])))
        => IsNaN(Cell(Catalogue[r], j))

\* the numbers the input table holds for an alias key in period y: the parsed
\* cells of the matching columns in the rows labelled y (wide form) and the
\* parsed values of the records of y whose line item matches (long form)
WideSources(wide, alias_key, y) ==
  IF wide.exc # "" THEN {}
  ELSE {ToNumeric(wide.base.rows[r][c]) :
          r \in {x \in 1..Len(wide.base.index) : wide.base.index[x] = y},
          c \in Range(MatchAlias(wide.base.columns, wide.base.norm, NormAlias[alias_key]))}

LongSources(frame, alias_key, y) ==
  {frame.value[r] :
     r \in {x \in Range(ItemRows(frame.item, NormAlias[alias_key])) : frame.year[x] = y}}

Sources(df, alias_key, y) ==
  WideSources(WideBase(df), alias_key, y)
    \cup LongSources(LongFrame(df, AnyStatement), alias_key, y)

\* the calls of _find_series in build_indicators
FindCalls ==
  << [name |-> "Revenue", stmt |-> <<"i","n","c","o","m","e">>, keywords |-> kw.net_revenue],
     [name |-> "COGS", stmt |-> <<"i","n","c","o","m","e">>, keywords |-> kw.cogs],
     [name |-> "EBIT", stmt |-> <<"i","n","c","o","m","e">>, keywords |-> kw.ebit],
     [name |-> "NetIncome", stmt |-> <<"i","n","c","o","m","e">>, keywords |-> kw.net_income],
     [name |-> "TotalAssets", stmt |-> <<"b","a","l","a","n","c","e">>, keywords |-> kw.total_assets],
     [name |-> "TotalEquity", stmt |-> <<"b","a","l","a","n","c","e">>, keywords |-> kw.total_equity],
     [name |-> "TotalLiabilities", stmt |-> <<"b","a","l","a","n","c","e">>, keywords |-> kw.total_liabilities],
     [name |-> "OperatingCF", stmt |-> <<"c","a","s","h">>, keywords |-> kw.ocf] >>

\* the values of the records of period y one call of _find_series matches
FindSources(df, call, y) ==
  {Column(df, <<"v","a","l","u","e">>)[r] :
     r \in {x \in Range(AccountRows(Column(df, <<"a","c","c","o","u","n","t">>),
                                    SelectStatement(df, call.stmt), call.keywords)) :
              Str(Column(df, <<"p","e","r","i","o","d">>)[x]) = y}}

\* C4: a series the assembler builds has no fabricated zero: an entry is 0
\* only if the input holds a number for that concept and period.
C4_NoFabricatedZero ==
  /\ Returned =>
       \A k \in 1..Len(FetchKeys) : \A e \in Range(S[FetchKeys[k]]) :
         IsZero(e.v) => \E v \in Sources(fin_df, FetchKeys[k], e.i) : IsFinite(v)
  /\ Built =>
       \A c \in 1..Len(FindCalls) : \A e \in Range(found[FindCalls[c].name]) :
         IsZero(e.v) => \E v \in FindSources(fin_df, FindCalls[c], e.i) : IsFinite(v)

\* C5: without a gross-profit line, Gross Margin of a period is
\* (revenue - cogs) / revenue (2/5 and 5/12 for revenue 1000, 1200 and cogs
\* 600, 700) and is NaN in the periods where cogs is absent.
C5_GrossMarginFromCogs ==
  /\ (Returned /\ NoLabel(fin_df, "gross_profit")) =>
       \A j \in 1..Len(loc) :
         /\ (Present(loc[j].revenue) /\ IsFinite(loc[j].cogs)) =>
              Cell("Gross Margin", j)
                = FDiv(FSub(loc[j].revenue, loc[j].cogs), loc[j].revenue)
         /\ IsNaN(loc[j].cogs) => IsNaN(Cell("Gross Margin", j))
  /\ Built =>
       \A t \in 1..Len(ratios) :
         IF \E v \in FindSources(fin_df, FindCalls[2], ratios[t].period) : IsFinite(v)
         THEN Present(ratios[t].Revenue) =>
                ratios[t].GrossMargin
                  = FDiv(FSub(ratios[t].Revenue, ratios[t].COGS), ratios[t].Revenue)
         ELSE IsNaN(ratios[t].GrossMargin)

\* the position of the first run of four digits of a label, 0 if none
FirstYearRun(l) ==
  LET at == {i \in 1..(Len(l) - 3) : \A d \in 0..3 : IsDigit(l[i + d])}
  IN  IF at = {} THEN 0 ELSE Min(at)

\* the Period Sorter key of the specification: (first 4-digit year, forecast
\* flag, label), a label without a year after every label with one
SorterKey(l) ==
  [year |-> IF FirstYearRun(l) > 0
            THEN DigitsValue(SubSeq(l, FirstYearRun(l), FirstYearRun(l) + 3))
            ELSE 10000,
   f |-> IF EndsWith(l, "F") \/ EndsWith(l, "f") THEN 1 ELSE 0,
   s |-> l]

InSorterOrder(ls) ==
  \A i \in 1..Len(ls) : \A j \in (i + 1)..Len(ls) :
    ~YearKeyLess(SorterKey(ls[j]), SorterKey(ls[i]))

Permutation(a, b) ==
  Len(a) = Len(b) /\ \A x \in Range(a) \cup Range(b) :
    Cardinality({i \in 1..Len(a) : a[i] = x}) = Cardinality({i \in 1..Len(b) : b[i] = x})

\* C6: sorting a list of period labels (sort_year_label as key, and
\* sort_year_labels) returns the same labels ordered by first 4-digit year,
\* then actual before forecast, then label text, a label without a year
\* last; [2022F, 2020, 2021, 2021F, 2020F] gives [2020, 2020F, 2021, 2021F, 2022F].
C6_SorterOrder ==
  Sorted =>
    /\ Permutation(ordered, labels)
    /\ InSorterOrder(ordered)
    /\ labels = SpecExample =>
         ordered = <<<<"2","0","2","0">>, <<"2","0","2","0","F">>, <<"2","0","2","1">>, <<"2","0","2","1","F">>, <<"2","0","2","2","F">>>>

\* C7: the columns of the table compute_indicators returns are in Period
\* Sorter order: the key of a column is not greater than the key of the next.
C7_ColumnsInSorterOrder ==
  (Returned /\ Len(years) > 0) =>
    \A j \in 1..(Len(view.columns) - 1) :
      ~YearKeyLess(SorterKey(view.columns[j + 1]), SorterKey(view.columns[j]))

\* C8: every table compute_indicators returns, the "No data" table included,
\* has the 20 catalogue names as its rows, each once, in the catalogue order.
C8_CatalogueRows ==
  Returned => /\ view.index = Catalogue
              /\ Len(view.cells) = Len(Catalogue)

\* C8 witness: the call returned the "No data" table.
C8_NoDataTableReturned ==
  Returned /\ view.columns = <<NoDataColumn>> /\ Len(view.index) = 20

\* the average of a concept over a period and the one before it
TwoPointAverage(cur, before) == FDiv(FAdd(cur, before), Num(2))

\* C9 as stated: the ROA / ROE denominator is the average over the period
\* and the one before it and, in the earliest period, the value of the
\* period alone, so ROA / ROE of the earliest period is a number whenever
\* net profit and the concept are non-zero numbers.
C9_EarliestUsesCurrentValue ==
  Returned =>
    \A j \in 1..Len(loc) :
      IF j = 1
      THEN /\ (Present(loc[1].net_profit) /\ Present(loc[1].ta)) =>
                Cell("ROA", 1) = FDiv(loc[1].net_profit, loc[1].ta)
           /\ (Present(loc[1].net_profit) /\ Present(loc[1].eq)) =>
                Cell("ROE", 1) = FDiv(loc[1].net_profit, loc[1].eq)
      ELSE /\ Cell("ROA", j)
                = safe_div(loc[j].net_profit, TwoPointAverage(loc[j].ta, loc[j - 1].ta))
           /\ Cell("ROE", j)
                = safe_div(loc[j].net_profit, TwoPointAverage(loc[j].eq, loc[j - 1].eq))

\* C9 amended: the ROA / ROE denominator is the average over the period and
\* the period column before it; the earliest period has no period before it,
\* its average is NaN and its ROA and ROE are NaN.
C9_EarliestIsAbsent ==
  Returned =>
    \A j \in 1..Len(loc) :
      IF j = 1
      THEN IsNaN(Cell("ROA", 1)) /\ IsNaN(Cell("ROE", 1))
      ELSE /\ Cell("ROA", j)
                = safe_div(loc[j].net_profit, TwoPointAverage(loc[j].ta, loc[j - 1].ta))
           /\ Cell("ROE", j)
                = safe_div(loc[j].net_profit, TwoPointAverage(loc[j].eq, loc[j - 1].eq))

\* C9 witness: two periods, net profit and total assets non-zero numbers in
\* both; ROA is NaN in the earliest period and a number in the next.
C9_TwoPeriodsReturned ==
  /\ Returned
  /\ Len(loc) = 2
  /\ Present(loc[1].net_profit) /\ Present(loc[1].ta)
  /\ Present(loc[2].net_profit) /\ Present(loc[2].ta)
  /\ IsNaN(Cell("ROA", 1))
  /\ IsFinite(Cell("ROA", 2))

\* C10: without a label matching an EBITDA alias, EBITDA of a period is
\* EBIT + depreciation, so EBITDA to Interest and Total Debt to EBITDA are
\* numbers wherever their operands are numbers and the denominator is not 0;
\* with an EBITDA label the explicit series is used.
C10_EbitdaFromEbitAndDepreciation ==
  Returned =>
    \A j \in 1..Len(loc) :
      IF NoLabel(fin_df, "ebitda")
      THEN /\ (/\ IsFinite(loc[j].ebit) /\ IsFinite(Get(S.depr, years[j]))
               /\ Present(loc[j].interest_exp)) =>
                Cell("EBITDA to Interest", j)
                  = FDiv(FAdd(loc[j].ebit, Get(S.depr, years[j])), loc[j].interest_exp)
           /\ (/\ IsFinite(FirstNonNan(<<loc[j].td, loc[j].tl>>))
               /\ Present(FAdd(loc[j].ebit, Get(S.depr, years[j])))) =>
                Cell("Total Debt to EBITDA", j)
                  = FDiv(FirstNonNan(<<loc[j].td, loc[j].tl>>),
                         FAdd(loc[j].ebit, Get(S.depr, years[j])))
      ELSE /\ loc[j].ebt_da = Get(S.ebitda, years[j])
           /\ Cell("EBITDA to Interest", j) = safe_div(loc[j].ebt_da, loc[j].interest_exp)

Fetched == pc = "done" /\ op = "fetch_metric_series" /\ metric.exc = ""

\* the values the table holds for an alias key in period y, in row / column
\* order: the values of the matching records of y when the key has matching
\* records (long form), else the cells of the matching columns in the row
\* of y (wide form)
MatchedLong(frame, rows, y) ==
  Pick(frame.value, SelectSeq(rows, LAMBDA r : frame.year[r] = y))

MatchedWide(wide, hits, y) ==
  IF wide.exc # "" THEN <<>>
  ELSE LET r == CHOOSE x \in 1..Len(wide.base.index) : wide.base.index[x] = y
       IN  Tup([h \in 1..Len(hits) |-> ToNumeric(wide.base.rows[r][hits[h]])])

MatchedIn(frame, rows, wide, alias_key, y) ==
  IF Len(rows) > 0 THEN MatchedLong(frame, rows, y)
  ELSE MatchedWide(wide,
                   MatchAlias(wide.base.columns, wide.base.norm, NormAlias[alias_key]), y)

Matched(frame, wide, alias_key, y) ==
  MatchedIn(frame, ItemRows(frame.item, NormAlias[alias_key]), wide, alias_key, y)

\* a series has one entry per period label, and an entry of a period for which
\* the table holds numbers is the sum of those numbers
SumsOf(series, frame, wide, alias_key) ==
  /\ \A i, j \in 1..Len(series) : i # j => series[i].i # series[j].i
  /\ \A e \in Range(series) :
       (\E v \in Range(Matched(frame, wide, alias_key, e.i)) : IsFinite(v))
         => e.v = SumSkipNa(SelectSeq(Matched(frame, wide, alias_key, e.i), IsFinite))
  /\ \A r \in Range(ItemRows(frame.item, NormAlias[alias_key])) :
       \E e \in Range(series) : e.i = frame.year[r]

Matched_Alias == pc = "done" /\ op = "_match_alias"

\* the letter a Vietnamese letter is written on
BaseLetter ==
  [ u00E0 |-> "a", u00E1 |-> "a", u00E3 |-> "a", u00EA |-> "e", u00ED |-> "i",
    u0103 |-> "a", u0111 |-> "d", u01A1 |-> "o", u01B0 |-> "u", u1EA1 |-> "a",
    u1EA3 |-> "a", u1EA7 |-> "a", u1EAD |-> "a", u1EAF |-> "a", u1EBF |-> "e",
    u1EC1 |-> "e", u1EC9 |-> "i", u1ECB |-> "i", u1ED1 |-> "o", u1ED3 |-> "o",
    u1ED5 |-> "o", u1ED9 |-> "o", u1EDF |-> "o", u1EE3 |-> "o", u1EE7 |-> "u",
    u1EEB |-> "u", u1EEF |-> "u" ]

StripDiacritics(s) ==
  Tup([i \in 1..Len(s) |-> IF s[i] \in DOMAIN BaseLetter THEN BaseLetter[s[i]] ELSE s[i]])

\* two labels differ at most in diacritics, case and punctuation / spacing
SameUpToWriting(a, b) == Norm(StripDiacritics(a)) = Norm(StripDiacritics(b))

\* C13: two labels that differ only in diacritics, case and punctuation or
\* spacing resolve to the same concept or both stay unmapped; the three
\* writings of "total assets" resolve to total_assets.
C13_WritingInsensitive ==
  Matched_Alias =>
    /\ SameUpToWriting(labels[1], labels[2])
         => (labels[1] \in Range(ordered) <=> labels[2] \in Range(ordered))
    /\ asked = "total_assets"
         => \A l \in Range(labels) \cap {<<"T","u1ED5","n","g"," ","t","u00E0","i"," ","s","u1EA3","n">>, <<"t","o","n","g"," ","t","a","i"," ","s","a","n">>, <<"T","O","T","A","L"," ","A","S","S","E","T","S">>} :
              l \in Range(ordered)

\* C13: the three writings of "total assets" have been resolved to total_assets.
C13_TotalAssetsResolved ==
  /\ Matched_Alias
  /\ asked = "total_assets"
  /\ labels = <<<<"T","u1ED5","n","g"," ","t","u00E0","i"," ","s","u1EA3","n">>, <<"T","O","T","A","L"," ","A","S","S","E","T","S">>>>
  /\ ordered = labels

\* fetch_metric_series has been called for revenue on a table with one cell
\* written as it is exported, and has ended
LocaleFetched ==
  pc = "done" /\ op = "fetch_metric_series" /\ fin_df \in LocaleTables /\ asked = "revenue"

\* the one value cell of such a table
LocaleCell == fin_df.rows[1][Len(fin_df.columns)]

Without(s, c) == SelectSeq(s, LAMBDA x : x # c)

Replaced(s, c, by) == Tup([i \in 1..Len(s) |-> IF s[i] = c THEN by ELSE s[i]])

\* the number a cell text stands for under the locale rule: with both "." and
\* "," in it, "." separates thousands and "," is the decimal point; "", "-",
\* "nan" and "none" in any case stand for no number
LocaleValue(t) ==
  IF Lower(Strip(t)) \in {<<>>, <<"-">>, <<"n","a","n">>, <<"n","o","n","e">>} THEN NaN
  ELSE IF Contains(<<".">>, t) /\ Contains(<<",">>, t)
       THEN ParseFloat(Replaced(Without(t, "."), ",", "."))
       ELSE ParseFloat(t)

\* C15: a numeric cell is read by the locale rule: "10.277,19" is 10277.19,
\* "1234.5" is 1234.5, and "", "-", "nan", "none" are absent; the series
\* fetched from the table holds the number so read.
C15_LocaleRule ==
  LocaleFetched =>
    /\ ToNumeric(LocaleCell) = LocaleValue(LocaleCell.t)
    /\ IsFinite(LocaleValue(LocaleCell.t))
         => metric = Ok(<<[i |-> <<"2","0","2","3">>, v |-> LocaleValue(LocaleCell.t)]>>)

\* C15: a cell written "1234.5" has been fetched as 1234.5.
C15_PlainNumberFetched ==
  /\ LocaleFetched
  /\ LocaleCell.t = <<"1","2","3","4",".","5">>
  /\ metric = Ok(<<[i |-> <<"2","0","2","3">>, v |-> Rat(2469, 2)]>>)

\* a file reader has been called on a file that starts with the bytes PK
ReadPk == pc = "done" /\ op \in ReaderOps /\ disk.exists /\ IsXlsx(disk.lines)

\* the steps that decode, sniff, count delimiters in, or parse the bytes
ContentSteps == {"decode", "sniff", "count", "guess", "parse", "manual"}

\* C14: every file reader (_read_csv_robust, _read_csv_robust_any,
\* read_csv_smart) rejects a file whose first two bytes are PK with the error
\* that names a disguised spreadsheet, before it decodes or parses the file.
C14_PkRejected ==
  ReadPk =>
    /\ result.exc = "ValueError"
    /\ result.msg = "xlsx"
    /\ Range(result.steps) \cap ContentSteps = {}

\* C14: _read_csv_robust and _read_csv_robust_any have rejected such a file.
C14_RobustReadersReject ==
  /\ ReadPk
  /\ op = "_read_csv_robust_any"
  /\ result.exc = "ValueError"
  /\ result.msg = "xlsx"
  /\ result.steps = <<"exists", "signature">>

\* load_data, or the fallback builder of display_year, has returned a table
\* that still holds the Year column of its source
PeriodsHandedOn ==
  /\ \/ op = "session" /\ asked = "load_data"
     \/ pc = "done" /\ op = "_fallback_build_display_year_column"
  /\ result.exc = ""
  /\ HasColumn(result.df, YearColumn)
  /\ HasColumn(result.df, DisplayYearColumn)

\* C16: the period labels handed on (display_year) are exactly the period
\* labels of the source: every row keeps its label, so a forecast period such
\* as 2024F stays distinct from the actual period 2024.
C16_PeriodLabelsKept ==
  PeriodsHandedOn =>
    \A r \in 1..Len(result.df.rows) :
      Column(result.df, DisplayYearColumn)[r] = Text(Str(Column(result.df, YearColumn)[r]))

\* C16: load_data has returned a table with the rows of 2024 and of 2024F.
C16_ForecastRowLoaded ==
  /\ PeriodsHandedOn
  /\ asked = "load_data"
  /\ \E r \in 1..Len(result.df.rows) : Column(result.df, YearColumn)[r] = Text(<<"2","0","2","4","F">>)
  /\ \E r \in 1..Len(result.df.rows) : Column(result.df, YearColumn)[r] = Text(<<"2","0","2","4">>)

\* what a caller sees of a returned value
Observable(r) == [exc |-> r.exc, msg |-> r.msg, df |-> r.df, info |-> r.info]

\* C19: memoization is unobservable: whatever files were written and loaders
\* called before, a call of a memoized loader (load_data,
\* _read_csv_robust_any, load_financial_csv, list_tickers) returns what the
\* loader without a cache returns for the file as it is now.
C19_MemoizationUnobservable ==
  [][LoadMemoized => Observable(result') = Observable(Body(NoCache, disk, asked'))]_vars

\* C19: a loader has been called again after the file was replaced.
C19_CalledAfterWrite ==
  /\ op = "session"
  /\ asked = "load_financial_csv"
  /\ cache["load_financial_csv"].exc = ""
  /\ Observable(cache["load_financial_csv"])
       # Observable(Body(NoCache, disk, "load_financial_csv"))
  /\ result = cache["load_financial_csv"]

\* C20: build_display_year_column, in each of its variants, leaves the table
\* it is called with as it was (same columns, same values) and returns a
\* table with a display_year column.
C20_InputNotMutated ==
  [][(pc = "ready" /\ op \in DisplayOps)
       => fin_df' = fin_df /\ HasColumn(result'.df, DisplayYearColumn)]_vars

\* C20: the variant of ultis/transforms.py has returned a table with a new
\* display_year column for a table that had none.
C20_CopyReturned ==
  /\ pc = "done"
  /\ op = "ultis.build_display_year_column"
  /\ ~HasColumn(fin_df, DisplayYearColumn)
  /\ HasColumn(result.df, DisplayYearColumn)

\* the cell of a pivot at a line item and a period label
CellAt(tab, item, period) ==
  tab.cells[IndexOf(tab.index, item, 1)][IndexOf(tab.columns, period, 1)]

\* the pivot is a table holding, at every line item and period column of
\* the wide sheet, the sheet's cell
Reproduces(tab, wide) ==
  /\ tab.exc = ""
  /\ \A r \in 1..Len(wide.rows) : \A c \in 2..Len(wide.columns) :
       /\ IndexOf(tab.index, wide.rows[r][1].t, 1) > 0
       /\ IndexOf(tab.columns, wide.columns[c], 1) > 0
       /\ CellAt(tab, wide.rows[r][1].t, wide.columns[c]) = wide.rows[r][c]

RoundTripOps == {"pivot_statement", "utils.pivot_long_to_table", "ultis.pivot_long_to_table"}

\* C17: a wide sheet reshaped to long form and pivoted back, by
\* pivot_statement or by pivot_long_to_table, gives for every line item and
\* every period column of the sheet the sheet's cell value.
C17_RoundTrip ==
  (pc = "done" /\ op \in RoundTripOps) =>
    \A w \in WideSheets :
      fin_df \in {Melt(w, <<"y","e","a","r">>), Melt(w, <<"p","e","r","i","o","d">>)} => Reproduces(view, w)

\* the rows pivot_long_to_table selects for the income statement
MatchingRows(df) ==
  IF HasColumn(df, <<"s","t","a","t","e","m","e","n","t">>) THEN StatementMask(df, <<"s","t","a","t","e","m","e","n","t">>, IS_NAMES).rows ELSE <<>>

LongComplete(df) ==
  /\ HasColumn(df, <<"s","t","a","t","e","m","e","n","t">>) /\ HasColumn(df, <<"a","c","c","o","u","n","t">>)
  /\ HasColumn(df, <<"v","a","l","u","e">>) /\ HasColumn(df, <<"y","e","a","r">>)

KeysOf(df, rows, name) == {Str(rows[r][ColIndex(df, name)]) : r \in 1..Len(rows)}

NoRepeat(seq) == \A i \in 1..Len(seq) : \A j \in 1..Len(seq) : seq[i] = seq[j] => i = j

ViewOps == {"utils.pivot_long_to_table", "ultis.pivot_long_to_table", "income_statement.render"}

\* C18: pivot_long_to_table, called for a statement that has at least one
\* matching row, returns without raising a table whose index is the line
\* items and whose columns are the period labels in Period Sorter order.
C18_StatementView ==
  (pc = "done" /\ op \in ViewOps /\ LongComplete(fin_df) /\ Len(MatchingRows(fin_df)) > 0) =>
    /\ view.exc = ""
    /\ NoRepeat(view.index) /\ NoRepeat(view.columns)
    /\ Range(view.index) = KeysOf(fin_df, MatchingRows(fin_df), <<"a","c","c","o","u","n","t">>)
    /\ Range(view.columns) = KeysOf(fin_df, MatchingRows(fin_df), <<"y","e","a","r">>)
    /\ InSorterOrder(view.columns)

Undelimited(file) ==
  /\ file.exists
  /\ Len(file.lines) > 0
  /\ \A i \in 1..Len(file.lines) : \A d \in Range(Delimiters) :
       Len(Split(file.lines[i], d)) < 2

\* C22: a file in which no delimiter candidate (comma, semicolon, tab, pipe)
\* splits any line into at least two columns is rejected by every reader
\* with a format error (ValueError); no reader returns a table for it.
C22_UndelimitedRejected ==
  (pc = "done" /\ op \in ReaderOps /\ Undelimited(disk)) => result.exc = "ValueError"

\* C23: compute_indicators returns a table and does not raise, whatever
\* strings the period labels are (a hyphen as in 2021-Q1, no digit at all).
C23_NeverRaises ==
  (op = "compute_indicators" /\ pc \in {"done", "again"} /\ Len(fin_df.rows) > 0) =>
    view.exc = ""

\* the concepts that have an alias equal to the label, both in canonical form
ExactConcepts(label) ==
  {k \in Range(FetchKeys) : \E i \in 1..Len(NormAlias[k]) : NormAlias[k][i] = Norm(label)}

\* C24: alias matching is exact first: a label whose canonical form equals an
\* alias of a concept is matched for that concept only, and not for a concept
\* whose alias is only a substring of the label (EBITDA is not matched for
\* ebit, Current Liabilities not for total_liab).
C24_ExactFirst ==
  Matched_Alias =>
    \A l \in Range(labels) :
      (ExactConcepts(l) # {} /\ asked \notin ExactConcepts(l)) => l \notin Range(ordered)

\* the series is built from the records that pass the statement filter, or,
\* when no record passes it, from all records of the concept
FilteredOrAll(series, filtered, all, alias_key) ==
  IF Len(filtered.item) > 0
  THEN Len(LongSeries(filtered, alias_key)) > 0 => series = LongSeries(filtered, alias_key)
  ELSE Len(LongSeries(all, alias_key)) > 0 => series = LongSeries(all, alias_key)

\* C25: with the statement filter of fetch_metric_series (income, balance,
\* cash), the long-form series is built from the records whose statement
\* matches only; when no record passes the statement filter it is built from
\* all records of the concept, whatever their statement, and is not empty.
C25_StatementFilter ==
  (Fetched /\ LongFrame(fin_df, <<>>).ok) =>
    FilteredOrAll(metric.ser, LongFrame(fin_df, AnyStatement), LongFrame(fin_df, <<>>), asked)

\* the (line, delimiter) pairs over comma, semicolon, tab and pipe, line by
\* line and, within a line, in that order of the delimiters
Candidates(lines) ==
  Flatten(Tup([i \in 1..Len(lines) |->
                 Tup([d \in 1..Len(Delimiters) |-> [idx |-> i - 1, sep |-> Delimiters[d]]])]))

Columns(lines, c) == Len(Split(lines[c.idx + 1], c.sep))

\* (a) the pairs that give at least 3 columns on a line with a keyword
KeyedCandidates(lines, cands) ==
  SelectSeq(cands, LAMBDA c : Columns(lines, c) >= 3 /\ Keyed(Cells(lines[c.idx + 1], c.sep)))

\* (b) the first pair that gives the most columns
Widest(lines, cands) ==
  cands[Min({v \in 1..Len(cands) :
               \A w \in 1..Len(cands) : Columns(lines, cands[w]) <= Columns(lines, cands[v])})]

\* the guess follows the order of preference (a), (b), (c); (c) is taken as
\* allowed whenever (a) does not apply
Preferred_Guess(guess, lines, keyed, cands) ==
  IF Len(keyed) > 0 THEN guess = keyed[1]
  ELSE guess = Widest(lines, cands) \/ guess = [idx |-> 0, sep |-> ","]

GuessOf(info) == [idx |-> DigitsValue(info[2]), sep |-> info[1][1]]

\* C26: _guess_header_and_sep returns (a) the first line that splits into at
\* least 3 columns under comma, semicolon, tab or pipe and holds a ticker
\* keyword, with that delimiter, (b) otherwise the line and delimiter giving
\* the most columns, (c) otherwise line 0 with comma; the index is an index
\* of the scanned lines, and _read_csv_robust takes its header from that line.
C26_GuessPreference ==
  /\ (pc = "done" /\ op = "_guess_header_and_sep") =>
       /\ GuessOf(result.info).idx < Len(disk.lines)
       /\ Preferred_Guess(GuessOf(result.info), disk.lines,
                          KeyedCandidates(disk.lines, Candidates(disk.lines)),
                          Candidates(disk.lines))
  /\ (pc = "done" /\ op = "_read_csv_robust" /\ result.exc = "" /\ Len(result.info) = 2
        /\ Len(result.info[1]) = 1) =>
       result.df.columns =
         HeaderNames(Split(disk.lines[GuessOf(result.info).idx + 1], GuessOf(result.info).sep))

\* fetch_metric_series has been called and has returned or raised
FetchEnded == pc = "done" /\ op = "fetch_metric_series"

\* the long-form series when it is not empty, else a series and no exception
LongFirst(outcome, long) ==
  /\ outcome.exc = ""
  /\ Len(long) > 0 => outcome.ser = long

\* C27: fetch_metric_series always ends with a series: the long-form series
\* whenever that is not empty, else the wide-form series indexed by period,
\* also for a table with several rows per period or without a year column;
\* it does not raise.
C27_EndsWithSeries ==
  FetchEnded => LongFirst(metric, ExtractSeriesLong(fin_df, AnyStatement, asked))

\* the period column of the table that is scoped, and its ticker column
PeriodColumnOf(df) ==
  IF HasColumn(df, DisplayYearColumn) THEN DisplayYearColumn
  ELSE IF HasColumn(df, YearColumn) THEN YearColumn ELSE <<"y","e","a","r">>

TickerColumnOf(df) == IF HasColumn(df, TickerColumn) THEN TickerColumn ELSE <<"t","i","c","k","e","r">>

\* the n most recent of a set of year labels
MostRecent(ps, n) ==
  {p \in ps : Cardinality({q \in ps : DigitsValue(q) > DigitsValue(p)}) < n}

\* the rows of the ticker whose period is among its n most recent periods
RowsInScope(df, rows, ticker, n) ==
  SelectSeq(rows,
    LAMBDA row :
      /\ row[ColIndex(df, TickerColumnOf(df))] = Text(ticker)
      /\ Str(row[ColIndex(df, PeriodColumnOf(df))])
           \in MostRecent({Str(r[ColIndex(df, PeriodColumnOf(df))]) :
                             r \in {x \in Range(rows) :
                                      x[ColIndex(df, TickerColumnOf(df))] = Text(ticker)}}, n))

\* C28: scoping by ticker and recent years keeps exactly the rows of the
\* selected ticker whose period is among the up to N most recent distinct
\* periods of that ticker: no row of another ticker, and every row of those
\* periods, however many rows a period has.
C28_ExactScope ==
  (pc = "done" /\ op \in ScopeOps) =>
    /\ Range(result.df.rows) =
         Range(RowsInScope(fin_df, fin_df.rows, labels[1], DigitsValue(labels[2])))
    /\ Len(result.df.rows) =
         Len(RowsInScope(fin_df, fin_df.rows, labels[1], DigitsValue(labels[2])))

\* the columns of the table read that name the ticker, the year, the period
NamedAmong(df, names) ==
  {c \in 1..Len(df.columns) : Lower(Strip(df.columns[c])) \in names}

TickerNames == {<<"t","i","c","k","e","r">>, <<"m","a","c","k">>, <<"s","y","m","b","o","l">>, <<"c","o","d","e">>}

YearNames == {<<"y","e","a","r">>, <<"n","a","m">>, <<"n","u0103","m">>}

PeriodNames == {<<"p","e","r","i","o","d">>, <<"k","u1EF3">>, <<"k","y">>}

\* the tickers written in the file: the cells of a ticker column that are
\* not missing, in upper case, without the blanks around them
RealTickers(df) ==
  {Strip(Upper(Str(df.rows[x[1]][x[2]]))) :
     x \in {y \in (1..Len(df.rows)) \X NamedAmong(df, TickerNames) :
              ~IsNaN(df.rows[y[1]][y[2]])}}

\* a table of one row at least, every row with a ticker of the file and a
\* year that is a number
ValidTable(df, tickers) ==
  /\ Len(df.rows) > 0
  /\ HasColumn(df, TickerColumn)
  /\ HasColumn(df, YearColumn)
  /\ \A r \in 1..Len(df.rows) :
       /\ df.rows[r][ColIndex(df, TickerColumn)].k = "text"
       /\ df.rows[r][ColIndex(df, TickerColumn)].t # <<>>
       /\ df.rows[r][ColIndex(df, TickerColumn)].t = Upper(df.rows[r][ColIndex(df, TickerColumn)].t)
       /\ df.rows[r][ColIndex(df, TickerColumn)].t \in tickers
       /\ IsFinite(df.rows[r][ColIndex(df, YearColumn)])

SchemaOrValid(loaded, read) ==
  /\ \/ loaded.exc = "ValueError"
     \/ loaded.exc = "" /\ ValidTable(loaded.df, RealTickers(read))
  /\ NamedAmong(read, TickerNames) = {} => loaded.exc = "ValueError"
  /\ NamedAmong(read, YearNames \cup PeriodNames) = {} => loaded.exc = "ValueError"

\* C29: load_financial_csv of ui/layout.py, on a file that could be read,
\* either raises a schema error or returns a table of one row at least in
\* which every row has a ticker of the file, not empty and in upper case
\* (never the text a missing cell turns into), and a year that is a number;
\* it raises when there is no ticker column and when there is neither a year
\* nor a period column.
C29_SchemaOrValid ==
  (pc = "done" /\ op = "load_financial_csv" /\ ReadCsvRobustAny(disk).exc = "") =>
    SchemaOrValid(result, ReadCsvRobustAny(disk).df)

\* the periods of the label table in chronological order
Chronological(df) ==
  StableSort(Unique(Tup([r \in 1..Len(ProfitRecords(df).rows) |->
                           Str(Column(ProfitRecords(df), <<"p","e","r","i","o","d">>)[r])])),
             LAMBDA a, b : DigitsValue(a) < DigitsValue(b))

\* the values of the net profit after tax of a ticker in a period
AfterTaxValues(df, t, p) ==
  Pick(Column(df, <<"v","a","l","u","e">>),
       SelectSeq(Tup([r \in 1..Len(df.rows) |-> r]),
         LAMBDA r : /\ df.rows[r][ColIndex(df, <<"t","i","c","k","e","r">>)] = Text(t)
                    /\ df.rows[r][ColIndex(df, <<"p","e","r","i","o","d">>)] = Text(p)
                    /\ Contains(<<"i","n","c","o","m","e">>, Lower(Str(df.rows[r][ColIndex(df, <<"s","t","a","t","e","m","e","n","t">>)])))
                    /\ Contains(<<"n","e","t"," ","p","r","o","f","i","t">>, Lower(Str(df.rows[r][ColIndex(df, <<"a","c","c","o","u","n","t">>)])))
                    /\ Contains(<<"a","f","t","e","r"," ","t","a","x">>, Lower(Str(df.rows[r][ColIndex(df, <<"a","c","c","o","u","n","t">>)])))))

\* the summed net profit after tax of the period is below zero
IsLoss(vals) ==
  /\ \E i \in 1..Len(vals) : IsFinite(vals[i])
  /\ SumSkipNa(vals).n < 0

ThreeLosses(df, t, periods) ==
  \E j \in 1..(Len(periods) - 2) :
    \A d \in 0..2 : IsLoss(AfterTaxValues(df, t, periods[j + d]))

LabelledAsClaimed(df, label_df, periods) ==
  \A r \in 1..Len(label_df.rows) :
    label_df.rows[r][2] =
      (IF ThreeLosses(df, label_df.rows[r][1].t, periods) THEN Num(1) ELSE Num(0))

\* C30: the default label of a ticker is 1 exactly when there are three
\* consecutive periods, in chronological column order, in each of which the
\* summed net profit after tax is below zero, and 0 otherwise; a period
\* without a value is no loss and fewer than three periods give 0.
C30_ThreeConsecutiveLosses ==
  (pc = "done" /\ op = "modeling.render") =>
    LabelledAsClaimed(fin_df, result.df, Chronological(fin_df))

====
